---- MODULE Spec2Model ----
(***************************************************************************)
(* A model of scanner-v3: the orchestrator of src/cli.py (sequential and   *)
(* concurrent analyzer execution), the persistent cache of                 *)
(* src/core/cache.py and the file walker of src/core/scanner.py.           *)
(*                                                                         *)
(* Python strings whose characters matter (paths, glob patterns) are       *)
(* sequences of one-character strings; dicts are ordered sequences of      *)
(* [key, value] records (insertion order, as in Python).                   *)
(***************************************************************************)
EXTENDS Integers, Sequences, FiniteSets, TLC

\* Longest list of requested analyzer names.
MaxNames == 3

\* Registered names an invocation may request.
Names == {"api", "env", "todos"}

None == "None"

VARIABLES
    \* ---- orchestrator (src/cli.py) ----
    analyzer_names,   \* the requested names, in request order
    registry,         \* what container.get_analyzer(name) does for each name
    analyze,          \* what analyzer.analyze(scan_result) does for each name
    parallel,         \* the --parallel/--sequential flag of the running invocation
    pc,               \* position of the running invocation
    i,                \* index of the sequential loop
    results,          \* results["analyzers"] of the running invocation
    tasks,            \* names of the coroutines handed to asyncio.gather
    task_result,      \* per task: Pending or the tuple run_analyzer_async returned
    finish_order,     \* task indices in the order the coroutines finished
    analyzer_results, \* the list asyncio.gather returned
    report,           \* per mode: NotRun, or how the invocation ended
    \* ---- file system and persistent cache (src/core/cache.py) ----
    os_name,          \* os.name of the platform
    project_path,     \* the scanned root; the cache lives in <root>/.scanner_cache
    now,              \* the clock that stamps modification times
    fs,               \* the project's files: per relative path a file record
    cache_file,       \* .scanner_cache.json on disk
    temp_file,        \* the .scanner_cache_*.tmp file of the save() under way
    cache_type,       \* the Python type of cache_data: what json.load returned
    cache_data,       \* PersistentCache.cache_data of the live instance
    save_pc,          \* position inside save() ("idle": not in save)
    temp_path_bound,  \* 'temp_path' in locals() of save()
    save_status,      \* how the last save() ended
    before_save,      \* cache_file when the last save() was entered
    last_check,       \* the is_file_changed call just made, and what it returned
    recorded,         \* per path, the live stat at its last successful update_file
    flushed,          \* the stats a completed save() has persisted
    \* ---- file walker (src/core/scanner.py) ----
    profile,          \* Settings.profile
    exclude_patterns, \* Scanner._exclude_patterns
    scan_pc,          \* position inside Scanner.scan ("idle": not scanning)
    visit_pc,         \* position inside the body of the loop over rglob("*")
    listing,          \* what project_path.rglob("*") has yet to yield
    files,            \* the FileInfo list scan() is building
    scan_results,     \* how each scan() so far ended: a ScanResult, or raised
    \* ---- analyzer registry (src/core/container.py) ----
    analyzers_path_exists, \* whether src/analyzers is a directory
    modules,          \* per module of the analyzers package: how it loads, and
                      \* what the constructor of its analyzer class does
    cont_pc,          \* "new": no Container() yet; "ready": __init__ returned;
                      \* "raised": __init__ raised
    attrs,            \* the attributes assigned on the Container so far
    analyzers,        \* Container._analyzers
    failed_analyzers, \* Container._failed_analyzers
    instances,        \* Container._instances
    ctor_calls,       \* per analyzer name, how often its constructor has run
    get_result,       \* the get_analyzer call just made, and how it ended
    \* ---- LLM context (src/output/context.py) ----
    context_parts,    \* what the five _format_* calls of build() give for the results
    max_tokens,       \* the max_tokens argument of build()
    build_pc,         \* "new": build() not called yet; "returned": it returned
    context,          \* the string build() returned
    \* ---- interruption of the scan command (src/cli.py) ----
    interrupt,        \* "none", or "delivered": SIGINT reached the process
    \* ---- HTTP API (src/api/main.py) ----
    scans_storage,    \* scans_storage: scan_id -> ScanStatus, in insertion order
    websocket_connections, \* the keys of websocket_connections
    task_pc,          \* position of run_scan_task ("none": not scheduled)
    scan_result,      \* the local scan_result of run_scan_task
    ws_pc,            \* position of websocket_endpoint ("none": no session)
    ws_scan_id,       \* the scan_id of the WebSocket session
    \* ---- rate limiter (src/core/validators.py) ----
    max_calls,        \* RateLimiter.max_calls
    time_window,      \* RateLimiter.time_window
    calls,            \* RateLimiter.calls
    clock,            \* what time.time() returns
    returned,         \* what the last check_limit() returned
    allowed           \* the times of all calls that returned True so far

orchVars == <<analyzer_names, registry, analyze, parallel, pc, i, results, tasks,
              task_result, finish_order, analyzer_results, report>>

cacheVars == <<os_name, project_path, now, fs, cache_file, temp_file, cache_type, cache_data,
               save_pc, temp_path_bound, save_status, before_save, last_check,
               recorded, flushed>>

scanVars == <<profile, exclude_patterns, scan_pc, visit_pc, listing, files, scan_results>>

contVars == <<analyzers_path_exists, modules, cont_pc, attrs, analyzers,
              failed_analyzers, instances, ctor_calls, get_result>>

outVars == <<context_parts, max_tokens, build_pc, context>>

sigVars == <<interrupt>>

apiVars == <<scans_storage, websocket_connections, task_pc, scan_result, ws_pc, ws_scan_id>>

limVars == <<max_calls, time_window, calls, clock, returned, allowed>>

vars == <<orchVars, cacheVars, scanVars, contVars, outVars, sigVars, apiVars, limVars>>

Modes == {"sequential", "parallel"}

(***************************************************************************)
(* Helpers                                                                 *)
(***************************************************************************)
Range(s) == {s[k] : k \in 1..Len(s)}

SeqsUpTo(S, n) == UNION {[1..k -> S] : k \in 0..n}

\* Python dict: d[k] = v keeps the position of an existing key, else appends.
DictSet(d, k, v) ==
    IF \E j \in 1..Len(d) : d[j].key = k
    THEN [j \in 1..Len(d) |-> IF d[j].key = k THEN [key |-> k, value |-> v] ELSE d[j]]
    ELSE Append(d, [key |-> k, value |-> v])

DictKeys(d) == [j \in 1..Len(d) |-> d[j].key]

DictHas(d, k) == \E j \in 1..Len(d) : d[j].key = k

DictGet(d, k) == d[CHOOSE j \in 1..Len(d) : d[j].key = k].value

(***************************************************************************)
(* File system                                                             *)
(***************************************************************************)
\* Latest clock value: every change another process makes to a file advances
\* the clock by one, and modification times lie in 0..MaxTime.
MaxTime == 2

\* Relative paths of the project's files, as character sequences.
FileA == <<"a", ".", "p", "y">>
FileFoo == <<"n", "o", "d", "e", "_", "m", "o", "d", "u", "l", "e", "s", "/", "f", "o", "o", ".", "j", "s">>
FileLog == <<"x", ".", "l", "o", "g">>

Files == {FileA, FileFoo, FileLog}

Roots == {<<"/", "p">>}

Slash == <<"/">>

\* str(project_path / relative)
AbsPath(root, rel) == root \o Slash \o rel

\* hashlib.md5 over the content, as hexdigest.
Md5(content) == [md5 |-> content]

Stat(f) == [exists |-> f.exists, mtime |-> f.mtime, size |-> f.size]

\* The cache file's own path under the root: .scanner_cache/.scanner_cache.json
CacheRel == <<".", "s", "c", "a", "n", "n", "e", "r", "_", "c", "a", "c", "h", "e", "/", ".", "s", "c", "a", "n", "n", "e", "r", "_", "c", "a", "c", "h", "e", ".", "j", "s", "o", "n">>

NoFile == [kind |-> "missing", doc |-> <<>>, mtime |-> 0]

\* json.dump(cache_data, f, indent=2): one item per key, in dict order.
JsonDump(d) ==
    [j \in 1..Len(d) |->
        <<d[j].key, d[j].value.mtime, d[j].value.size, d[j].value.hash>>]

\* json.load(f): the dict of the items, a repeated key keeping its last value.
RECURSIVE JsonLoad(_)
JsonLoad(doc) ==
    IF doc = <<>> THEN <<>>
    ELSE LET item == doc[Len(doc)] IN
         DictSet(JsonLoad(SubSeq(doc, 1, Len(doc) - 1)), item[1],
                 [mtime |-> item[2], size |-> item[3], hash |-> item[4]])

\* Bytes of the document json.dump writes with indent=2: "{}" for an empty
\* dict, about 150 more for every entry.
DocSize(file) == 2 + 150 * Len(file.doc)

\* The file at a relative path as stat() and open() find it. The cache file
\* is a file under the root like any other; its content is abstracted to the
\* number of entries it holds.
Live(rel) ==
    IF rel = CacheRel
    THEN [exists |-> cache_file.kind # "missing", mtime |-> cache_file.mtime,
          size |-> DocSize(cache_file), content |-> Len(cache_file.doc)]
    ELSE fs[rel]

(***************************************************************************)
(* PersistentCache: src/core/cache.py                                      *)
(***************************************************************************)
\* A _load_cache that never reads the file back.
LoadCacheEmpty(file) == <<>>

\* _load_cache: a missing or undecodable file gives an empty cache.
LoadCache(file) == IF file.kind = "doc" THEN JsonLoad(file.doc) ELSE <<>>

\* The type of what _load_cache returns: json.load gives back whatever value
\* the document holds, a dict only if the document is an object.
LoadType(file) ==
    CASE file.kind = "null" -> "NoneType"
      [] file.kind = "list" -> "list"
      [] OTHER -> "dict"

\* open() in text mode decodes while json.load reads: bytes that are not
\* valid text raise UnicodeDecodeError, a ValueError that is neither OSError
\* nor JSONDecodeError, so _load_cache and __init__ raise.
LoadRaises(file) == file.kind = "undecodable"

\* The kind of document json.dump writes for cache_data.
DumpKind ==
    CASE cache_type = "NoneType" -> "null"
      [] cache_type = "list" -> "list"
      [] OTHER -> "doc"

\* `key not in self.cache_data` (line 46, outside the try) raises TypeError
\* when cache_data is None.
IsFileChangedRaises == cache_type = "NoneType"

CalculateHash(rel) == Md5(Live(rel).content)

\* An is_file_changed that also compares the stored hash with the content.
IsFileChangedByHash(rel) ==
    LET key == AbsPath(project_path, rel) IN
    IF ~DictHas(cache_data, key) THEN TRUE
    ELSE IF ~Live(rel).exists THEN TRUE
    ELSE \/ DictGet(cache_data, key).mtime # Live(rel).mtime
         \/ DictGet(cache_data, key).size # Live(rel).size
         \/ DictGet(cache_data, key).hash # CalculateHash(rel)

\* An is_file_changed that reports every file as changed.
IsFileChangedAlways(rel) == TRUE

\* is_file_changed(project_path / rel)
IsFileChanged(rel) ==
    LET key == AbsPath(project_path, rel) IN
    IF ~DictHas(cache_data, key) THEN TRUE
    ELSE IF ~Live(rel).exists THEN TRUE
    ELSE \/ DictGet(cache_data, key).mtime # Live(rel).mtime
         \/ DictGet(cache_data, key).size # Live(rel).size

\* update_file(project_path / rel): the cache_data it leaves. The bare except
\* swallows a failing stat() and the TypeError of an item assignment to a
\* cache_data that is not a dict.
UpdateFile(rel) ==
    IF Live(rel).exists /\ cache_type = "dict"
    THEN DictSet(cache_data, AbsPath(project_path, rel),
                 [mtime |-> Live(rel).mtime, size |-> Live(rel).size,
                  hash |-> CalculateHash(rel)])
    ELSE cache_data

NoCheck == [called |-> FALSE, path |-> <<>>, result |-> FALSE]
NoStats == [f \in Files |-> [exists |-> FALSE, mtime |-> 0, size |-> 0]]
NotFlushed == [valid |-> FALSE, paths |-> {}, stats |-> NoStats]
NothingRecorded == [fresh |-> FALSE, paths |-> {}, stats |-> NoStats]

\* No signal has reached the process.
SigIdle == interrupt = "none"

\* The API module just imported: empty storages, no task, no session.
ApiIdle ==
    /\ scans_storage = <<>>
    /\ websocket_connections = {}
    /\ task_pc = "none"
    /\ scan_result = "none"
    /\ ws_pc = "none"
    /\ ws_scan_id = "none"

\* The rate limiter's variables while no limiter is in use.
LimIdle ==
    /\ max_calls = 0
    /\ time_window = 0
    /\ calls = <<>>
    /\ clock = 0
    /\ returned = "none"
    /\ allowed = <<>>

\* The context builder's variables while build() is not in use.
OutIdle ==
    /\ context_parts = <<>>
    /\ max_tokens = 0
    /\ build_pc = "new"
    /\ context = <<>>

\* No get_analyzer call has been made.
NoGet == [called |-> FALSE, name |-> "", outcome |-> "none"]

\* The registry's variables while no Container is in use.
ContIdle ==
    /\ analyzers_path_exists = TRUE
    /\ modules = [n \in Names |-> [load |-> "absent", ctor |-> "ok"]]
    /\ cont_pc = "new"
    /\ attrs = {}
    /\ analyzers = <<>>
    /\ failed_analyzers = <<>>
    /\ instances = <<>>
    /\ ctor_calls = [n \in Names |-> 0]
    /\ get_result = NoGet

\* The walker's variables while no scan runs.
ScanIdle ==
    /\ profile = "balanced"
    /\ exclude_patterns = <<>>
    /\ scan_pc = "idle"
    /\ visit_pc = "is_file"
    /\ listing = <<>>
    /\ files = <<>>
    /\ scan_results = <<>>

\* The state of the cache variables while no cache is in use.
CacheIdle ==
    /\ os_name = "posix"
    /\ project_path \in Roots
    /\ now = 0
    /\ fs = [f \in Files |-> [exists |-> TRUE, mtime |-> 0, size |-> 1, content |-> 1]]
    /\ cache_file = NoFile
    /\ temp_file = NoFile
    /\ cache_type = "dict"
    /\ cache_data = <<>>
    /\ save_pc = "idle"
    /\ temp_path_bound = FALSE
    /\ save_status = "none"
    /\ before_save = NoFile
    /\ last_check = NoCheck
    /\ recorded = NothingRecorded
    /\ flushed = NotFlushed

(***************************************************************************)
(* Exclusion patterns: pathlib.PurePath.match, str.strip and the "in" test *)
(* of Scanner._should_exclude                                              *)
(***************************************************************************)
IsAbsolute(s) == s # <<>> /\ s[1] = "/"

\* The components of a "/"-separated string; empty and "." components drop out.
RECURSIVE SplitParts(_, _)
SplitParts(s, cur) ==
    LET keep == IF cur = <<>> \/ cur = <<".">> THEN <<>> ELSE <<cur>> IN
    IF s = <<>> THEN keep
    ELSE IF Head(s) = "/" THEN keep \o SplitParts(Tail(s), <<>>)
    ELSE SplitParts(Tail(s), Append(cur, Head(s)))

\* PurePath(s).parts: the root "/" of an absolute path is a part of its own.
PathParts(s) ==
    IF IsAbsolute(s) THEN <<Slash>> \o SplitParts(s, <<>>) ELSE SplitParts(s, <<>>)

\* fnmatch.fnmatchcase(name, pat) for patterns of literals, "*" and "?".
RECURSIVE Fnmatch(_, _)
Fnmatch(name, pat) ==
    IF pat = <<>> THEN name = <<>>
    ELSE IF Head(pat) = "*"
         THEN \/ Fnmatch(name, Tail(pat))
              \/ name # <<>> /\ Fnmatch(Tail(name), pat)
    ELSE IF Head(pat) = "?"
         THEN name # <<>> /\ Fnmatch(Tail(name), Tail(pat))
    ELSE name # <<>> /\ Head(name) = Head(pat) /\ Fnmatch(Tail(name), Tail(pat))

\* PurePath.match raises ValueError("empty pattern") for a pattern without parts.
MatchRaises(pat) == PathParts(pat) = <<>>

\* PurePath(path).match(pat), for a pattern that has parts.
PathMatch(path, pat) ==
    LET parts == PathParts(path)
        pat_all == PathParts(pat)
        anchored == IsAbsolute(pat)
        pat_parts == IF anchored THEN Tail(pat_all) ELSE pat_all
        n == Len(parts)
        m == Len(pat_parts)
    IN  /\ anchored => (IsAbsolute(path) /\ Len(pat_all) = n)
        /\ ~anchored => m <= n
        /\ \A k \in 1..m : (k <= n) => Fnmatch(parts[n - k + 1], pat_parts[m - k + 1])

\* pattern.strip("*/")
RECURSIVE LStrip(_)
LStrip(s) == IF s # <<>> /\ Head(s) \in {"*", "/"} THEN LStrip(Tail(s)) ELSE s

RECURSIVE RStrip(_)
RStrip(s) ==
    IF s # <<>> /\ s[Len(s)] \in {"*", "/"} THEN RStrip(SubSeq(s, 1, Len(s) - 1)) ELSE s

Strip(s) == RStrip(LStrip(s))

\* sub in s
IsSubstring(sub, s) ==
    \E k \in 0..(Len(s) - Len(sub)) : SubSeq(s, k + 1, k + Len(sub)) = sub

\* One pattern of the loop of _should_exclude, for a pattern match() accepts.
PatternExcludes(root, rel, pat) ==
    \/ PathMatch(AbsPath(root, rel), pat)
    \/ PathMatch(rel, pat)
    \/ IsSubstring(Strip(pat), AbsPath(root, rel))

\* _should_exclude(root / rel, root): the first pattern that matches excludes;
\* an exception of match() ends the loop in "except Exception: pass", and the
\* method returns False.
RECURSIVE ShouldExclude(_, _, _)
ShouldExclude(root, rel, patterns) ==
    IF patterns = <<>> THEN FALSE
    ELSE IF MatchRaises(Head(patterns)) THEN FALSE
    ELSE IF PatternExcludes(root, rel, Head(patterns)) THEN TRUE
    ELSE ShouldExclude(root, rel, Tail(patterns))

\* Patterns a configuration may list.
PatNodeModules == <<"*", "n", "o", "d", "e", "_", "m", "o", "d", "u", "l", "e", "s", "*">>
PatLog == <<"*", "*", "/", "*", ".", "l", "o", "g">>
PatDot == <<".">>

Patterns == {PatNodeModules, PatLog, PatDot}

(***************************************************************************)
(* Orchestrator: src/cli.py                                                *)
(***************************************************************************)
ModeOf(p) == IF p THEN "parallel" ELSE "sequential"

NotRun == [status |-> "not_run", analyzers |-> <<>>]
Raised == [status |-> "raised", analyzers |-> <<>>]
Finished(res) == [status |-> "ok", analyzers |-> res]

\* result.data of an analyzer that returns, and str(e) of one that raises.
\* The payload is the analyzer's own dict: it may hold any key, "error" too.
Payload(name) ==
    IF analyze[name] = "returns_error_key"
    THEN [error |-> "reported", items |-> name]
    ELSE [items |-> name]

ErrorText(name) ==
    CASE name = "api" -> "api failed"
      [] name = "env" -> "env failed"
      [] OTHER -> "todos failed"

ErrorData(name) == [error |-> ErrorText(name)]

\* A run_analyzer_async whose except branch loses the exception text.
RunAnalyzerAsyncNoText(name) ==
    IF analyze[name] # "raises"
    THEN [done |-> TRUE, name |-> name, data |-> Payload(name), error |-> None]
    ELSE [done |-> TRUE, name |-> name, data |-> [error |-> "error"],
          error |-> ErrorText(name)]

\* run_analyzer_async: the tuple (name, data, duration, error), duration left out.
RunAnalyzerAsync(name) ==
    IF analyze[name] # "raises"
    THEN [done |-> TRUE, name |-> name, data |-> Payload(name), error |-> None]
    ELSE [done |-> TRUE, name |-> name, data |-> ErrorData(name),
          error |-> ErrorText(name)]

\* A join that yields the results as they complete (asyncio.as_completed).
GatherAsCompleted(tr, order) == [t \in 1..Len(tr) |-> tr[order[t]]]

\* asyncio.gather(*tasks): the results in the order of the awaitables.
Gather(tr, order) == [t \in 1..Len(tr) |-> tr[t]]

\* for name, data, duration, error in analyzer_results: results[name] = data
RECURSIVE ProcessResults(_, _)
ProcessResults(res, rs) ==
    IF rs = <<>> THEN res
    ELSE ProcessResults(DictSet(res, Head(rs).name, Head(rs).data), Tail(rs))

\* A sequential loop body whose except branch only prints.
SeqStoreDropError(res, name) ==
    IF analyze[name] # "raises"
    THEN DictSet(res, name, Payload(name))
    ELSE res

\* The try/except of the sequential loop body.
SeqStore(res, name) ==
    IF analyze[name] # "raises"
    THEN DictSet(res, name, Payload(name))
    ELSE DictSet(res, name, ErrorData(name))

Resolves(name) == registry[name] = "instance"

OrchInit ==
    /\ analyzer_names \in SeqsUpTo(Names, MaxNames)
    /\ registry \in [Names -> {"instance", "none", "raises"}]
    /\ analyze \in [Names -> {"returns", "raises"}]
    /\ parallel = FALSE
    /\ pc = "idle"
    /\ i = 1
    /\ results = <<>>
    /\ tasks = <<>>
    /\ task_result = <<>>
    /\ finish_order = <<>>
    /\ analyzer_results = <<>>
    /\ report = [m \in Modes |-> NotRun]
    /\ CacheIdle
    /\ ScanIdle
    /\ ContIdle
    /\ OutIdle
    /\ SigIdle
    /\ ApiIdle
    /\ LimIdle

\* scan(): one invocation with the given --parallel/--sequential flag.
OrchStart(p) ==
    /\ pc = "idle"
    /\ report[ModeOf(p)] = NotRun
    /\ parallel' = p
    /\ results' = <<>>
    /\ i' = 1
    /\ pc' = IF p THEN "par_build" ELSE "seq_loop"
    /\ UNCHANGED <<analyzer_names, registry, analyze, tasks, task_result,
                   finish_order, analyzer_results, report>>
    /\ UNCHANGED <<cacheVars, scanVars, contVars, outVars, sigVars, apiVars, limVars>>

\* One iteration of "for analyzer_name in analyzer_names".
SeqIteration ==
    /\ pc = "seq_loop"
    /\ i <= Len(analyzer_names)
    /\ LET name == analyzer_names[i] IN
         \/ /\ registry[name] = "raises"
            /\ pc' = "idle"
            /\ report' = [report EXCEPT !["sequential"] = Raised]
            /\ UNCHANGED <<i, results>>
         \/ /\ registry[name] = "none"
            /\ i' = i + 1
            /\ UNCHANGED <<pc, report, results>>
         \/ /\ Resolves(name)
            /\ results' = SeqStore(results, name)
            /\ i' = i + 1
            /\ UNCHANGED <<pc, report>>
    /\ UNCHANGED <<analyzer_names, registry, analyze, parallel, tasks, task_result,
                   finish_order, analyzer_results>>
    /\ UNCHANGED <<cacheVars, scanVars, contVars, outVars, sigVars, apiVars, limVars>>

SeqReturn ==
    /\ pc = "seq_loop"
    /\ i > Len(analyzer_names)
    /\ report' = [report EXCEPT !["sequential"] = Finished(results)]
    /\ pc' = "idle"
    /\ UNCHANGED <<analyzer_names, registry, analyze, parallel, i, results, tasks,
                   task_result, finish_order, analyzer_results>>
    /\ UNCHANGED <<cacheVars, scanVars, contVars, outVars, sigVars, apiVars, limVars>>

\* run_analyzers_parallel up to the gather: the coroutines are created, none runs.
ParBuild ==
    /\ pc = "par_build"
    /\ \/ /\ \E k \in 1..Len(analyzer_names) : registry[analyzer_names[k]] = "raises"
          /\ pc' = "idle"
          /\ report' = [report EXCEPT !["parallel"] = Raised]
          /\ UNCHANGED <<tasks, task_result, finish_order>>
       \/ /\ \A k \in 1..Len(analyzer_names) : registry[analyzer_names[k]] # "raises"
          /\ tasks' = SelectSeq(analyzer_names, Resolves)
          /\ task_result' = [t \in 1..Len(tasks') |-> [done |-> FALSE]]
          /\ finish_order' = <<>>
          /\ pc' = "par_gather"
          /\ UNCHANGED report
    /\ UNCHANGED <<analyzer_names, registry, analyze, parallel, i, results,
                   analyzer_results>>
    /\ UNCHANGED <<cacheVars, scanVars, contVars, outVars, sigVars, apiVars, limVars>>

\* One coroutine of the gather runs to its return; any pending one may be next.
TaskFinish(t) ==
    /\ pc = "par_gather"
    /\ ~task_result[t].done
    /\ task_result' = [task_result EXCEPT ![t] = RunAnalyzerAsync(tasks[t])]
    /\ finish_order' = Append(finish_order, t)
    /\ UNCHANGED <<analyzer_names, registry, analyze, parallel, pc, i, results, tasks,
                   analyzer_results, report>>
    /\ UNCHANGED <<cacheVars, scanVars, contVars, outVars, sigVars, apiVars, limVars>>

GatherReturn ==
    /\ pc = "par_gather"
    /\ \A t \in 1..Len(tasks) : task_result[t].done
    /\ analyzer_results' = Gather(task_result, finish_order)
    /\ pc' = "par_process"
    /\ UNCHANGED <<analyzer_names, registry, analyze, parallel, i, results, tasks,
                   task_result, finish_order, report>>
    /\ UNCHANGED <<cacheVars, scanVars, contVars, outVars, sigVars, apiVars, limVars>>

\* The loop over analyzer_results, then the rest of scan().
ParProcess ==
    /\ pc = "par_process"
    /\ results' = ProcessResults(results, analyzer_results)
    /\ report' = [report EXCEPT !["parallel"] = Finished(results')]
    /\ pc' = "idle"
    /\ UNCHANGED <<analyzer_names, registry, analyze, parallel, i, tasks, task_result,
                   finish_order, analyzer_results>>
    /\ UNCHANGED <<cacheVars, scanVars, contVars, outVars, sigVars, apiVars, limVars>>

\* cli.py:192 and api/main.py:347-348: an entry counts as failed when it has
\* the key "error".
SeenAsError(data) == "error" \in DOMAIN data

\* generate_summary(results): the counts of its first three fields.
GenerateSummary(res) ==
    [total_analyzers_run |-> Len(res),
     successful_analyzers |-> Cardinality({j \in 1..Len(res) : ~SeenAsError(res[j].value)}),
     failed_analyzers |-> Cardinality({j \in 1..Len(res) : SeenAsError(res[j].value)})]

\* _show_summary_table(results): per entry, whether the row shows an error.
ShowSummaryTable(res) ==
    [j \in 1..Len(res) |->
        [name |-> res[j].key,
         row |-> IF SeenAsError(res[j].value) THEN "error" ELSE "finding"]]

OrchNext ==
    \/ \E p \in BOOLEAN : OrchStart(p)
    \/ SeqIteration
    \/ SeqReturn
    \/ ParBuild
    \/ \E t \in 1..Len(tasks) : TaskFinish(t)
    \/ GatherReturn
    \/ ParProcess

SpecOrch == OrchInit /\ [][OrchNext]_vars

\* The same invocations over analyzers whose payload is any dict.
ReportInit ==
    /\ analyzer_names \in SeqsUpTo(Names, MaxNames)
    /\ registry \in [Names -> {"instance", "none", "raises"}]
    /\ analyze \in [Names -> {"returns", "returns_error_key", "raises"}]
    /\ parallel = FALSE
    /\ pc = "idle"
    /\ i = 1
    /\ results = <<>>
    /\ tasks = <<>>
    /\ task_result = <<>>
    /\ finish_order = <<>>
    /\ analyzer_results = <<>>
    /\ report = [m \in Modes |-> NotRun]
    /\ CacheIdle
    /\ ScanIdle
    /\ ContIdle
    /\ OutIdle
    /\ SigIdle
    /\ ApiIdle
    /\ LimIdle

SpecReport == ReportInit /\ [][OrchNext]_vars

(***************************************************************************)
(* The cache used directly: construction, update_file, is_file_changed,    *)
(* save and clear, while other processes change the files.                 *)
(***************************************************************************)
\* The orchestrator's variables while no analysis runs.
OrchIdle ==
    /\ analyzer_names = <<>>
    /\ registry = [n \in Names |-> "none"]
    /\ analyze = [n \in Names |-> "returns"]
    /\ parallel = FALSE
    /\ pc = "idle"
    /\ i = 1
    /\ results = <<>>
    /\ tasks = <<>>
    /\ task_result = <<>>
    /\ finish_order = <<>>
    /\ analyzer_results = <<>>
    /\ report = [m \in Modes |-> NotRun]

FileSizes == {1, 2}
Contents == {1, 2}

StaleEntry ==
    <<AbsPath(CHOOSE r \in Roots : TRUE, FileA), 0, 2, Md5(2)>>

\* What may lie on disk before the first cache is constructed.
InitialCacheFiles ==
    { NoFile,
      [kind |-> "corrupt", doc |-> <<>>, mtime |-> 0],
      [kind |-> "doc", doc |-> <<>>, mtime |-> 0],
      [kind |-> "doc", doc |-> <<StaleEntry>>, mtime |-> 0] }

\* PersistentCache(cache_dir) has just been constructed over the given file.
Constructed(onDisk) ==
    /\ OrchIdle
    /\ OutIdle
    /\ SigIdle
    /\ ApiIdle
    /\ LimIdle
    /\ ScanIdle
    /\ ContIdle
    /\ os_name \in {"posix", "nt"}
    /\ project_path \in Roots
    /\ now = 0
    /\ fs = [f \in Files |-> [exists |-> TRUE, mtime |-> 0, size |-> 1, content |-> 1]]
    /\ cache_file \in onDisk
    /\ temp_file = NoFile
    /\ cache_type = LoadType(cache_file)
    /\ cache_data = LoadCache(cache_file)
    /\ save_pc = "idle"
    /\ temp_path_bound = FALSE
    /\ save_status = "none"
    /\ before_save = NoFile
    /\ last_check = NoCheck
    /\ recorded = NothingRecorded
    /\ flushed = NotFlushed

\* PersistentCache.__init__: what it does to the cache and the disk.
Construct ==
    /\ cache_data' = LoadCache(cache_file)
    /\ save_pc' = "idle"
    /\ temp_path_bound' = FALSE
    /\ save_status' = "none"
    /\ last_check' = NoCheck
    /\ recorded' = IF flushed.valid
                   THEN [fresh |-> TRUE, paths |-> flushed.paths, stats |-> flushed.stats]
                   ELSE [NothingRecorded EXCEPT !.fresh = TRUE]
    /\ before_save' = NoFile
    /\ cache_type' = LoadType(cache_file)
    /\ UNCHANGED <<os_name, project_path, fs, cache_file, temp_file, flushed>>

\* __init__ of a new instance over the same directory (also after a crash).
NewCache ==
    /\ save_pc \in {"idle", "crashed"}
    /\ Construct
    /\ UNCHANGED now
    /\ UNCHANGED <<orchVars, scanVars, contVars, outVars, sigVars, apiVars, limVars>>

\* The record of what update_file saw, for a project file.
Recorded(f) ==
    IF f \in Files /\ fs[f].exists
    THEN [fresh |-> FALSE, paths |-> recorded.paths \cup {f},
          stats |-> [recorded.stats EXCEPT ![f] = Stat(fs[f])]]
    ELSE [recorded EXCEPT !.fresh = FALSE]

UpdateFileCall(f) ==
    /\ save_pc = "idle"
    /\ cache_data' = UpdateFile(f)
    /\ recorded' = Recorded(f)
    /\ last_check' = NoCheck
    /\ UNCHANGED <<os_name, project_path, cache_type, now, fs, cache_file, temp_file, save_pc,
                   temp_path_bound, save_status, before_save, flushed>>
    /\ UNCHANGED <<orchVars, scanVars, contVars, outVars, sigVars, apiVars, limVars>>

IsFileChangedCall(f) ==
    /\ save_pc = "idle"
    /\ last_check' = [called |-> TRUE, path |-> f, result |-> IsFileChanged(f)]
    /\ UNCHANGED <<os_name, project_path, cache_type, now, fs, cache_file, temp_file, cache_data,
                   save_pc, temp_path_bound, save_status, before_save, recorded,
                   flushed>>
    /\ UNCHANGED <<orchVars, scanVars, contVars, outVars, sigVars, apiVars, limVars>>

\* clear()
Clear ==
    /\ save_pc = "idle"
    /\ cache_data' = <<>>
    /\ cache_file' = NoFile
    /\ recorded' = NothingRecorded
    /\ flushed' = NotFlushed
    /\ cache_type' = "dict"
    /\ UNCHANGED <<os_name, project_path, now, fs, temp_file, save_pc, temp_path_bound,
                   save_status, before_save, last_check>>
    /\ UNCHANGED <<orchVars, scanVars, contVars, outVars, sigVars, apiVars, limVars>>

\* Entering save(): what it does to the cache variables.
EnterSave ==
    /\ save_pc' = "mkstemp"
    /\ temp_path_bound' = FALSE
    /\ temp_file' = NoFile
    /\ save_status' = "running"
    /\ before_save' = cache_file
    /\ flushed' = NotFlushed
    /\ last_check' = NoCheck
    /\ UNCHANGED <<os_name, project_path, cache_type, now, fs, cache_file, cache_data, recorded>>

\* save() is entered.
SaveBegin ==
    /\ save_pc = "idle"
    /\ EnterSave
    /\ UNCHANGED <<orchVars, scanVars, contVars, outVars, sigVars, apiVars, limVars>>

\* tempfile.mkstemp(dir=cache_dir, ...): creates the file, or raises.
SaveMkstemp ==
    /\ save_pc = "mkstemp"
    /\ \/ /\ temp_file' = [kind |-> "doc", doc |-> <<>>, mtime |-> now]
          /\ temp_path_bound' = TRUE
          /\ save_pc' = "write"
       \/ /\ save_pc' = "except"
          /\ UNCHANGED <<temp_file, temp_path_bound>>
    /\ UNCHANGED <<os_name, project_path, cache_type, now, fs, cache_file, cache_data, save_status,
                   before_save, last_check, recorded, flushed>>
    /\ UNCHANGED <<orchVars, scanVars, contVars, outVars, sigVars, apiVars, limVars>>

\* json.dump into the temporary file: all of it, or an error part-way.
\* Afterwards os.name and cache_file.exists() decide whether the target is unlinked.
SaveWrite ==
    /\ save_pc = "write"
    /\ \/ /\ temp_file' = [kind |-> DumpKind, doc |-> JsonDump(cache_data), mtime |-> now]
          /\ save_pc' = IF os_name = "nt" /\ cache_file.kind # "missing"
                        THEN "unlink" ELSE "rename"
       \/ /\ temp_file' = [kind |-> "corrupt", doc |-> <<>>, mtime |-> now]
          /\ save_pc' = "except"
    /\ UNCHANGED <<os_name, project_path, cache_type, now, fs, cache_file, cache_data,
                   temp_path_bound, save_status, before_save, last_check, recorded,
                   flushed>>
    /\ UNCHANGED <<orchVars, scanVars, contVars, outVars, sigVars, apiVars, limVars>>

\* self.cache_file.unlink() on Windows.
SaveUnlinkTarget ==
    /\ save_pc = "unlink"
    /\ \/ /\ cache_file' = NoFile
          /\ save_pc' = "rename"
       \/ /\ save_pc' = "except"
          /\ UNCHANGED cache_file
    /\ UNCHANGED <<os_name, project_path, cache_type, now, fs, temp_file, cache_data,
                   temp_path_bound, save_status, before_save, last_check, recorded,
                   flushed>>
    /\ UNCHANGED <<orchVars, scanVars, contVars, outVars, sigVars, apiVars, limVars>>

\* temp_path_obj.rename(self.cache_file), then save() returns.
SaveRename ==
    /\ save_pc = "rename"
    /\ \/ /\ cache_file' = temp_file
          /\ temp_file' = NoFile
          /\ save_pc' = "idle"
          /\ save_status' = "returned"
          /\ flushed' = [valid |-> TRUE, paths |-> recorded.paths,
                         stats |-> recorded.stats]
          /\ before_save' = NoFile
       \/ /\ save_pc' = "except"
          /\ UNCHANGED <<cache_file, temp_file, save_status, flushed, before_save>>
    /\ UNCHANGED <<os_name, project_path, cache_type, now, fs, cache_data, temp_path_bound,
                   last_check, recorded>>
    /\ UNCHANGED <<orchVars, scanVars, contVars, outVars, sigVars, apiVars, limVars>>

\* The except clause: unlink the temporary file if temp_path is bound, raise e.
SaveExcept ==
    /\ save_pc = "except"
    /\ temp_file' = IF temp_path_bound THEN NoFile ELSE temp_file
    /\ save_pc' = "idle"
    /\ save_status' = "raised"
    /\ before_save' = NoFile
    /\ UNCHANGED <<os_name, project_path, cache_type, now, fs, cache_file, cache_data,
                   temp_path_bound, last_check, recorded, flushed>>
    /\ UNCHANGED <<orchVars, scanVars, contVars, outVars, sigVars, apiVars, limVars>>

\* The process is killed inside save().
Crash ==
    /\ save_pc \notin {"idle", "crashed"}
    /\ save_pc' = "crashed"
    /\ save_status' = "crashed"
    /\ UNCHANGED <<os_name, project_path, cache_type, now, fs, cache_file, temp_file, cache_data,
                   temp_path_bound, before_save, last_check, recorded, flushed>>
    /\ UNCHANGED <<orchVars, scanVars, contVars, outVars, sigVars, apiVars, limVars>>

\* Other processes: a file gets a new modification time, ...
Touch(f) ==
    /\ save_pc = "idle"
    /\ fs[f].exists
    /\ now < MaxTime
    /\ now' = now + 1
    /\ fs' = [fs EXCEPT ![f].mtime = now + 1]
    /\ UNCHANGED <<os_name, project_path, cache_type, cache_file, temp_file, cache_data, save_pc,
                   temp_path_bound, save_status, before_save, last_check, recorded,
                   flushed>>
    /\ UNCHANGED <<orchVars, scanVars, contVars, outVars, sigVars, apiVars, limVars>>

\* ... grows, ...
Resize(f, size) ==
    /\ save_pc = "idle"
    /\ fs[f].exists
    /\ size > fs[f].size
    /\ now < MaxTime
    /\ now' = now + 1
    /\ fs' = [fs EXCEPT ![f].size = size]
    /\ UNCHANGED <<os_name, project_path, cache_type, cache_file, temp_file, cache_data,
                   save_pc, temp_path_bound, save_status, before_save, last_check,
                   recorded, flushed>>
    /\ UNCHANGED <<orchVars, scanVars, contVars, outVars, sigVars, apiVars, limVars>>

\* ... other bytes of the same length under the same modification time, ...
Rewrite(f, content) ==
    /\ save_pc = "idle"
    /\ fs[f].exists
    /\ content > fs[f].content
    /\ now < MaxTime
    /\ now' = now + 1
    /\ fs' = [fs EXCEPT ![f].content = content]
    /\ UNCHANGED <<os_name, project_path, cache_type, cache_file, temp_file, cache_data,
                   save_pc, temp_path_bound, save_status, before_save, last_check,
                   recorded, flushed>>
    /\ UNCHANGED <<orchVars, scanVars, contVars, outVars, sigVars, apiVars, limVars>>

\* ... or is removed.
Delete(f) ==
    /\ save_pc = "idle"
    /\ fs[f].exists
    /\ now < MaxTime
    /\ now' = now + 1
    /\ fs' = [fs EXCEPT ![f].exists = FALSE]
    /\ UNCHANGED <<os_name, project_path, cache_type, cache_file, temp_file, cache_data,
                   save_pc, temp_path_bound, save_status, before_save, last_check,
                   recorded, flushed>>
    /\ UNCHANGED <<orchVars, scanVars, contVars, outVars, sigVars, apiVars, limVars>>

\* The files the cache is asked about.
Tracked == {FileA, FileLog}

\* save() step by step, with failures and process kills, between updates.
SaveNext ==
    \/ NewCache
    \/ \E f \in Tracked : UpdateFileCall(f)
    \/ Clear
    \/ SaveBegin
    \/ SaveMkstemp
    \/ SaveWrite
    \/ SaveUnlinkTarget
    \/ SaveRename
    \/ SaveExcept
    \/ Crash
    \/ \E f \in Tracked : Touch(f)

SaveInit == Constructed(InitialCacheFiles)

SpecSave == SaveInit /\ [][SaveNext]_vars

\* The cache between runs: record, flush, construct anew, ask, while other
\* processes change the files.
CacheNext ==
    \/ NewCache
    \/ \E f \in Tracked : UpdateFileCall(f)
    \/ \E f \in Tracked : IsFileChangedCall(f)
    \/ SaveBegin
    \/ SaveMkstemp
    \/ SaveWrite
    \/ SaveUnlinkTarget
    \/ SaveRename
    \/ SaveExcept
    \/ \E f \in Tracked : Touch(f)
    \/ \E f \in Tracked, size \in FileSizes : Resize(f, size)
    \/ \E f \in Tracked, content \in Contents : Rewrite(f, content)
    \/ \E f \in Tracked : Delete(f)

\* A first run (no cache file) or a later one (entries of an earlier run).
CacheInit ==
    Constructed({NoFile, [kind |-> "doc", doc |-> <<StaleEntry>>, mtime |-> 0]})

SpecCache == CacheInit /\ [][CacheNext]_vars

(***************************************************************************)
(* Scanner.scan: src/core/scanner.py, with the profiles of src/core/config.py *)
(***************************************************************************)
MaxPatterns == 2

\* Settings.profile is a free string; PROFILES has three keys.
ProfileNames == {"fast", "balanced", "deep", "custom"}

\* PROFILES[...]["max_file_size"]
FastMaxFileSize == 100000
BalancedMaxFileSize == 500000
DeepMaxFileSize == 2000000

\* get_profile_settings()["max_file_size"]: PROFILES.get(profile, PROFILES["balanced"])
MaxFileSize(p) ==
    CASE p = "fast" -> FastMaxFileSize
      [] p = "deep" -> DeepMaxFileSize
      [] OTHER -> BalancedMaxFileSize

\* The inverted boundary: a file of exactly the maximum is skipped as well.
TooLargeOrEqual(size, max_size) == size >= max_size

\* file_path.stat().st_size > max_size
TooLarge(size, max_size) == size > max_size

\* The directories under the root; rglob yields them, is_file() rejects them.
DirNodeModules == <<"n", "o", "d", "e", "_", "m", "o", "d", "u", "l", "e", "s">>
DirCache == <<".", "s", "c", "a", "n", "n", "e", "r", "_", "c", "a", "c", "h", "e">>
Dirs == {DirNodeModules, DirCache}

\* The order in which rglob("*") yields the entries of the tree.
WalkOrder == <<FileA, DirNodeModules, FileFoo, FileLog, DirCache, CacheRel>>

IsFile(rel) == rel \notin Dirs /\ Live(rel).exists

\* What rglob("*") yields: the entries that exist when the walk runs. The cache
\* directory exists from PersistentCache.__init__ on.
Rglob == SelectSeq(WalkOrder, LAMBDA rel : rel \in Dirs \/ Live(rel).exists)

\* PurePath.suffix of the final component.
RECURSIVE LastDot(_)
LastDot(name) ==
    IF name = <<>> THEN 0
    ELSE IF name[Len(name)] = "." THEN Len(name)
    ELSE LastDot(SubSeq(name, 1, Len(name) - 1))

Suffix(rel) ==
    LET parts == PathParts(rel)
        name == IF parts = <<>> THEN <<>> ELSE parts[Len(parts)]
        dot == LastDot(name)
    IN  IF 1 < dot /\ dot < Len(name) THEN SubSeq(name, dot, Len(name)) ELSE <<>>

FileInfo(rel) ==
    [path |-> AbsPath(project_path, rel), size |-> Live(rel).size,
     extension |-> Suffix(rel)]

RECURSIVE SumSizes(_)
SumSizes(fl) == IF fl = <<>> THEN 0 ELSE Head(fl).size + SumSizes(Tail(fl))

\* A ScanResult whose total_size counts the entries instead of their bytes.
ScanResultCountingEntries(fl) ==
    [status |-> "ok", root |-> project_path, files |-> fl,
     total_files |-> Len(fl), total_size |-> Len(fl)]

ScanResult(fl) ==
    [status |-> "ok", root |-> project_path, files |-> fl,
     total_files |-> Len(fl), total_size |-> SumSizes(fl)]

\* scan() left by the exception of cache.save(): the caller gets no ScanResult.
ScanRaised ==
    [status |-> "raised", root |-> project_path, files |-> <<>>,
     total_files |-> 0, total_size |-> 0]

\* scan() left by an exception of a stat() in the loop: no ScanResult.
ScanAborted ==
    [status |-> "aborted", root |-> project_path, files |-> <<>>,
     total_files |-> 0, total_size |-> 0]

\* scan() left by an exception of the cache: of its construction, or of
\* is_file_changed.
ScanCacheError ==
    [status |-> "cache_error", root |-> project_path, files |-> <<>>,
     total_files |-> 0, total_size |-> 0]

\* Cache files whose content json.load does not turn into a dict: the
\* documents "null" and "[]", and bytes that are not valid text.
ForeignCacheFiles ==
    { [kind |-> "null", doc |-> <<>>, mtime |-> 0],
      [kind |-> "list", doc |-> <<>>, mtime |-> 0],
      [kind |-> "undecodable", doc |-> <<>>, mtime |-> 0] }

\* A scanner and a project before the first scan: no cache object yet.
ScanProject(onDisk) ==
    /\ OrchIdle
    /\ OutIdle
    /\ SigIdle
    /\ ApiIdle
    /\ LimIdle
    /\ ContIdle
    /\ profile \in ProfileNames
    /\ exclude_patterns \in SeqsUpTo(Patterns, MaxPatterns)
    /\ scan_pc = "idle"
    /\ visit_pc = "is_file"
    /\ listing = <<>>
    /\ files = <<>>
    /\ scan_results = <<>>
    /\ os_name \in {"posix", "nt"}
    /\ project_path \in Roots
    /\ now = 0
    /\ fs \in [Files -> {[exists |-> TRUE, mtime |-> 0, size |-> sz, content |-> 1] :
                         sz \in {MaxFileSize(profile), MaxFileSize(profile) + 1}}]
    /\ cache_file \in onDisk
    /\ temp_file = NoFile
    /\ cache_type = "dict"
    /\ cache_data = <<>>
    /\ save_pc = "idle"
    /\ temp_path_bound = FALSE
    /\ save_status = "none"
    /\ before_save = NoFile
    /\ last_check = NoCheck
    /\ recorded = NothingRecorded
    /\ flushed = NotFlushed

ScanInit == ScanProject(InitialCacheFiles)

\* scan() up to the loop: the cache is constructed, rglob starts. An
\* exception of PersistentCache(cache_dir) leaves scan().
ScanStart ==
    /\ scan_pc = "idle"
    /\ save_pc = "idle"
    /\ now < MaxTime
    /\ now' = now + 1
    /\ IF LoadRaises(cache_file)
       THEN /\ scan_results' = Append(scan_results, ScanCacheError)
            /\ UNCHANGED <<os_name, project_path, cache_type, fs, cache_file, temp_file,
                           cache_data, save_pc, temp_path_bound, save_status,
                           before_save, last_check, recorded, flushed>>
            /\ UNCHANGED <<scan_pc, listing, files>>
       ELSE /\ Construct
            /\ scan_pc' = "walk"
            /\ listing' = Rglob
            /\ files' = <<>>
            /\ UNCHANGED scan_results
    /\ UNCHANGED <<profile, exclude_patterns, visit_pc>>
    /\ UNCHANGED <<orchVars, contVars, outVars, sigVars, apiVars, limVars>>

\* One iteration of the loop over rglob("*").
ScanVisit ==
    /\ scan_pc = "walk"
    /\ listing # <<>>
    /\ LET rel == Head(listing)
           keep == /\ IsFile(rel)
                   /\ ~ShouldExclude(project_path, rel, exclude_patterns)
                   /\ ~TooLarge(Live(rel).size, MaxFileSize(profile))
       IN  /\ listing' = Tail(listing)
           /\ files' = IF keep THEN Append(files, FileInfo(rel)) ELSE files
           /\ cache_data' = IF keep /\ IsFileChanged(rel) THEN UpdateFile(rel)
                            ELSE cache_data
           /\ recorded' = IF keep /\ IsFileChanged(rel) THEN Recorded(rel)
                          ELSE recorded
    /\ UNCHANGED <<profile, exclude_patterns, scan_pc, visit_pc, scan_results>>
    /\ UNCHANGED <<os_name, project_path, cache_type, now, fs, cache_file, temp_file, save_pc,
                   temp_path_bound, save_status, before_save, last_check, flushed>>
    /\ UNCHANGED <<orchVars, contVars, outVars, sigVars, apiVars, limVars>>

\* "for file_path in project_path.rglob("*")" has no entry left.
LoopEndedAnywhere == TRUE

LoopEnded == listing = <<>>

\* The loop is over: self.cache.save() is entered.
ScanSave ==
    /\ scan_pc = "walk"
    /\ LoopEnded
    /\ save_pc = "idle"
    /\ EnterSave
    /\ scan_pc' = "save"
    /\ UNCHANGED <<profile, exclude_patterns, visit_pc, listing, files, scan_results>>
    /\ UNCHANGED <<orchVars, contVars, outVars, sigVars, apiVars, limVars>>

\* save() returned: scan() returns the ScanResult.
ScanReturn ==
    /\ scan_pc = "save"
    /\ save_pc = "idle"
    /\ save_status = "returned"
    /\ scan_results' = Append(scan_results, ScanResult(files))
    /\ scan_pc' = "idle"
    /\ files' = <<>>
    /\ UNCHANGED <<profile, exclude_patterns, visit_pc, listing>>
    /\ UNCHANGED <<cacheVars, orchVars, contVars, outVars, sigVars, apiVars, limVars>>

\* save() raised: the exception leaves scan().
ScanRaise ==
    /\ scan_pc = "save"
    /\ save_pc = "idle"
    /\ save_status = "raised"
    /\ scan_results' = Append(scan_results, ScanRaised)
    /\ scan_pc' = "idle"
    /\ files' = <<>>
    /\ UNCHANGED <<profile, exclude_patterns, visit_pc, listing>>
    /\ UNCHANGED <<cacheVars, orchVars, contVars, outVars, sigVars, apiVars, limVars>>

\* Scans of one project, one after the other, nothing else touching the tree.
ScanNext ==
    \/ ScanStart
    \/ ScanVisit
    \/ ScanSave
    \/ SaveMkstemp
    \/ SaveWrite
    \/ SaveUnlinkTarget
    \/ SaveRename
    \/ SaveExcept
    \/ ScanReturn
    \/ ScanRaise

SpecScan == ScanInit /\ [][ScanNext]_vars

(***************************************************************************)
(* The scan command: Scanner.scan, then the analyzers over its result      *)
(***************************************************************************)
CliNames == {<<>>, <<"api">>, <<"api", "env">>}

\* The command line is parsed, the container built; nothing has run yet.
CliInit ==
    /\ analyzer_names \in CliNames
    /\ registry = [n \in Names |-> "instance"]
    /\ analyze \in [Names -> {"returns", "raises"}]
    /\ analyze["todos"] = "returns"
    /\ parallel = FALSE
    /\ pc = "idle"
    /\ i = 1
    /\ results = <<>>
    /\ tasks = <<>>
    /\ task_result = <<>>
    /\ finish_order = <<>>
    /\ analyzer_results = <<>>
    /\ report = [m \in Modes |-> NotRun]
    /\ OutIdle
    /\ SigIdle
    /\ ApiIdle
    /\ LimIdle
    /\ ContIdle
    /\ profile = "balanced"
    /\ exclude_patterns \in {<<>>, <<PatLog>>}
    /\ scan_pc = "idle"
    /\ visit_pc = "is_file"
    /\ listing = <<>>
    /\ files = <<>>
    /\ scan_results = <<>>
    /\ os_name \in {"posix", "nt"}
    /\ project_path \in Roots
    /\ now = 0
    /\ fs = [f \in Files |-> [exists |-> TRUE, mtime |-> 0,
                              size |-> MaxFileSize(profile), content |-> 1]]
    /\ cache_file \in InitialCacheFiles
    /\ temp_file = NoFile
    /\ cache_type = "dict"
    /\ cache_data = <<>>
    /\ save_pc = "idle"
    /\ temp_path_bound = FALSE
    /\ save_status = "none"
    /\ before_save = NoFile
    /\ last_check = NoCheck
    /\ recorded = NothingRecorded
    /\ flushed = NotFlushed

\* scan_result = asyncio.run(scan_async()).
CliScan ==
    /\ scan_results = <<>>
    /\ ScanNext

\* Lines 106-140: the analyzers run once scan() has returned its result;
\* an exception of scan() ends the command before them.
CliAnalyze ==
    /\ scan_results # <<>>
    /\ scan_results[Len(scan_results)].status = "ok"
    /\ pc = "idle" => \A m \in Modes : report[m] = NotRun
    /\ OrchNext

CliNext ==
    \/ CliScan
    \/ CliAnalyze

SpecCli == CliInit /\ [][CliNext]_vars

(***************************************************************************)
(* Ctrl-C while the analyzers of the scan command run                      *)
(***************************************************************************)
\* The analyzers whose analyze() does its per-file work inside "try: ...
\* except: pass", which also catches KeyboardInterrupt.
CatchAll == {"todos"}

\* An analyzer is running or has yet to run.
InFlight ==
    \/ pc = "seq_loop" /\ i <= Len(analyzer_names)
    \/ pc = "par_gather" /\ \E t \in 1..Len(tasks) : ~task_result[t].done

\* The analyzers whose code may be executing when the signal arrives.
Running ==
    IF pc = "seq_loop"
    THEN {n \in {analyzer_names[i]} : Resolves(n)}
    ELSE {tasks[t] : t \in {u \in 1..Len(tasks) : ~task_result[u].done}}

\* SIGINT reaches the process. From Python 3.11 on asyncio.run cancels its
\* main task and raises KeyboardInterrupt when the task ends; before 3.11
\* (setup.py: python_requires >= 3.8) KeyboardInterrupt is raised in the code
\* that is executing. Neither "except Exception" of cli.py catches it, so the
\* command ends, unless it is raised inside a bare except of the analyzer,
\* which drops it: then the command goes on.
Interrupt ==
    /\ interrupt = "none"
    /\ InFlight
    /\ interrupt' = "delivered"
    /\ \/ /\ pc' = "aborted"
          /\ UNCHANGED <<analyzer_names, registry, analyze, parallel, i, results, tasks,
                         task_result, finish_order, analyzer_results, report>>
       \/ /\ Running \cap CatchAll # {}
          /\ UNCHANGED orchVars
    /\ UNCHANGED <<cacheVars, scanVars, contVars, outVars, apiVars, limVars>>

CancelNext ==
    \/ OrchNext
    \/ Interrupt

SpecCancel == OrchInit /\ [][CancelNext]_vars

(***************************************************************************)
(* Three scans of one untouched project                                    *)
(***************************************************************************)
\* A project that has never been scanned, one clock tick earlier than in the
\* other specifications, so that three scans fit below MaxTime.
RepeatInit ==
    /\ OrchIdle
    /\ OutIdle
    /\ SigIdle
    /\ ApiIdle
    /\ LimIdle
    /\ ContIdle
    /\ profile \in {"fast", "balanced"}
    /\ exclude_patterns \in SeqsUpTo({PatLog, PatNodeModules}, MaxPatterns)
    /\ scan_pc = "idle"
    /\ visit_pc = "is_file"
    /\ listing = <<>>
    /\ files = <<>>
    /\ scan_results = <<>>
    /\ os_name \in {"posix", "nt"}
    /\ project_path \in Roots
    /\ now = -1
    /\ fs \in [Files -> {[exists |-> TRUE, mtime |-> -1, size |-> sz, content |-> 1] :
                         sz \in {MaxFileSize(profile), MaxFileSize(profile) + 1}}]
    /\ cache_file = NoFile
    /\ temp_file = NoFile
    /\ cache_type = "dict"
    /\ cache_data = <<>>
    /\ save_pc = "idle"
    /\ temp_path_bound = FALSE
    /\ save_status = "none"
    /\ before_save = NoFile
    /\ last_check = NoCheck
    /\ recorded = NothingRecorded
    /\ flushed = NotFlushed

SpecRepeat == RepeatInit /\ [][ScanNext]_vars

(***************************************************************************)
(* One tree layout scanned under two root directories                      *)
(***************************************************************************)
\* A checkout of the project below a directory named node_modules.
VendoredRoot == <<"/", "n", "o", "d", "e", "_", "m", "o", "d", "u", "l", "e", "s", "/", "p">>

\* The tree as it is before any scan, with no cache directory.
RootsInit == ScanProject({NoFile})

\* scan(project_path) is next called on a copy of the same tree, made before
\* the first scan, that lies under the other root.
Relocate ==
    /\ scan_pc = "idle"
    /\ save_pc = "idle"
    /\ scan_results # <<>>
    /\ project_path \in Roots
    /\ project_path' = VendoredRoot
    /\ cache_file' = NoFile
    /\ temp_file' = NoFile
    /\ cache_data' = <<>>
    /\ recorded' = NothingRecorded
    /\ flushed' = NotFlushed
    /\ UNCHANGED <<os_name, cache_type, now, fs, save_pc, temp_path_bound, save_status,
                   before_save, last_check>>
    /\ UNCHANGED scanVars
    /\ UNCHANGED <<orchVars, contVars, outVars, sigVars, apiVars, limVars>>

RootsNext ==
    \/ ScanNext
    \/ Relocate

SpecRoots == RootsInit /\ [][RootsNext]_vars

(***************************************************************************)
(* The body of the loop of Scanner.scan call by call, while other          *)
(* processes remove files                                                  *)
(***************************************************************************)
\* The loop goes on to the next entry rglob yields.
Continue ==
    /\ listing' = Tail(listing)
    /\ visit_pc' = "is_file"

\* Lines 32-35: is_file(), which is False for a path that is gone, then
\* _should_exclude.
WalkIsFile ==
    /\ scan_pc = "walk"
    /\ visit_pc = "is_file"
    /\ listing # <<>>
    /\ IF IsFile(Head(listing))
          /\ ~ShouldExclude(project_path, Head(listing), exclude_patterns)
       THEN visit_pc' = "size" /\ UNCHANGED listing
       ELSE Continue
    /\ UNCHANGED <<profile, exclude_patterns, scan_pc, files, scan_results>>
    /\ UNCHANGED <<cacheVars, orchVars, contVars, outVars, sigVars, apiVars, limVars>>

\* Lines 38-42: the first stat(), inside try/except Exception: continue.
WalkSize ==
    /\ scan_pc = "walk"
    /\ visit_pc = "size"
    /\ IF ~Live(Head(listing)).exists
       THEN Continue
       ELSE IF TooLarge(Live(Head(listing)).size, MaxFileSize(profile))
       THEN Continue
       ELSE visit_pc' = "append" /\ UNCHANGED listing
    /\ UNCHANGED <<profile, exclude_patterns, scan_pc, files, scan_results>>
    /\ UNCHANGED <<cacheVars, orchVars, contVars, outVars, sigVars, apiVars, limVars>>

\* Lines 45-49: the second stat(), in the arguments of FileInfo, outside any
\* try: FileNotFoundError leaves the loop and scan().
WalkAppend ==
    /\ scan_pc = "walk"
    /\ visit_pc = "append"
    /\ IF Live(Head(listing)).exists
       THEN /\ files' = Append(files, FileInfo(Head(listing)))
            /\ visit_pc' = "cache"
            /\ UNCHANGED <<scan_pc, listing, scan_results>>
       ELSE /\ scan_results' = Append(scan_results, ScanAborted)
            /\ scan_pc' = "idle"
            /\ visit_pc' = "is_file"
            /\ listing' = <<>>
            /\ files' = <<>>
    /\ UNCHANGED <<profile, exclude_patterns>>
    /\ UNCHANGED <<cacheVars, orchVars, contVars, outVars, sigVars, apiVars, limVars>>

\* Lines 52-53: is_file_changed and update_file, both of which catch what
\* stat() and open() raise; the TypeError of the membership test on a
\* cache_data that is None leaves scan().
WalkCache ==
    /\ scan_pc = "walk"
    /\ visit_pc = "cache"
    /\ IF IsFileChangedRaises
       THEN /\ scan_results' = Append(scan_results, ScanCacheError)
            /\ scan_pc' = "idle"
            /\ visit_pc' = "is_file"
            /\ listing' = <<>>
            /\ files' = <<>>
            /\ UNCHANGED <<cache_data, recorded>>
       ELSE /\ cache_data' = IF IsFileChanged(Head(listing))
                             THEN UpdateFile(Head(listing)) ELSE cache_data
            /\ recorded' = IF IsFileChanged(Head(listing)) /\ cache_type = "dict"
                           THEN Recorded(Head(listing)) ELSE recorded
            /\ Continue
            /\ UNCHANGED <<scan_pc, files, scan_results>>
    /\ UNCHANGED <<profile, exclude_patterns>>
    /\ UNCHANGED <<os_name, project_path, cache_type, now, fs, cache_file, temp_file, save_pc,
                   temp_path_bound, save_status, before_save, last_check, flushed>>
    /\ UNCHANGED <<orchVars, contVars, outVars, sigVars, apiVars, limVars>>

\* A project to walk: the default-like pattern list or none, over whatever
\* the cache directory may hold.
WalkInit ==
    /\ ScanProject(InitialCacheFiles \cup ForeignCacheFiles)
    /\ profile \in {"fast", "balanced"}
    /\ exclude_patterns \in {<<>>, <<PatLog>>}

\* A scan call by call, files vanishing under it.
WalkNext ==
    \/ ScanStart
    \/ WalkIsFile
    \/ WalkSize
    \/ WalkAppend
    \/ WalkCache
    \/ ScanSave
    \/ SaveMkstemp
    \/ SaveWrite
    \/ SaveUnlinkTarget
    \/ SaveRename
    \/ SaveExcept
    \/ ScanReturn
    \/ ScanRaise
    \/ \E f \in Files : Delete(f)

SpecWalk == WalkInit /\ [][WalkNext]_vars

(***************************************************************************)
(* The loop of Scanner.scan call by call, while other processes append to  *)
(* files or remove them                                                    *)
(***************************************************************************)
GrowInit ==
    /\ ScanProject({NoFile})
    /\ exclude_patterns \in {<<>>, <<PatLog>>}

\* Another process appends to a file until it is above the profile's limit.
Grow(f) == Resize(f, MaxFileSize(profile) + 1)

GrowNext ==
    \/ WalkNext
    \/ \E f \in Files : Grow(f)

SpecGrow == GrowInit /\ [][GrowNext]_vars

(***************************************************************************)
(* HTTP API: src/api/main.py                                               *)
(***************************************************************************)
\* The id uuid.uuid4() gives the scan of the model.
ScanId == "s1"

\* The ids a WebSocket client may connect with.
WsIds == {ScanId, "unknown"}

\* ScanStatus(scan_id, status="pending", progress=0, started_at=now); the
\* optional fields are None, written <<>>.
PendingScan ==
    [status |-> "pending", progress |-> 0, current_analyzer |-> "none",
     results |-> <<>>, error |-> <<>>]

InStorage(id) == DictHas(scans_storage, id)

\* scans_storage[ScanId] with the given fields assigned.
Assign(status, progress, current) ==
    DictSet(scans_storage, ScanId,
            [DictGet(scans_storage, ScanId) EXCEPT !.status = status,
                                                   !.progress = progress,
                                                   !.current_analyzer = current])

\* The positions of run_scan_task inside notify_websocket.
NotifyPcs ==
    {"notify_scanning", "notify_found", "notify_running", "notify_completed",
     "notify_failed"}

\* The event loop can run another handler: run_scan_task is not running, or
\* it is suspended. Scanner.scan and the analyzers never suspend, and
\* notify_websocket only does inside ws.send_json, which it calls when the
\* scan has a WebSocket; the task is started by Starlette after the response
\* of start_scan has been sent.
LoopFree ==
    \/ task_pc \in {"none", "queued", "done"}
    \/ task_pc \in NotifyPcs /\ ScanId \in websocket_connections

\* POST /api/scan for an existing directory.
StartScan ==
    /\ task_pc = "none"
    /\ LoopFree
    /\ scans_storage' = DictSet(scans_storage, ScanId, PendingScan)
    /\ task_pc' = "queued"
    /\ UNCHANGED <<websocket_connections, scan_result, ws_pc, ws_scan_id>>
    /\ UNCHANGED <<orchVars, cacheVars, scanVars, contVars, outVars, sigVars, limVars>>

\* DELETE /api/scan/{scan_id}: 404 for an unknown id, 400 for a completed or
\* failed scan, otherwise the status becomes "cancelled".
CancelScan(id) ==
    /\ LoopFree
    /\ InStorage(id)
    /\ DictGet(scans_storage, id).status \notin {"completed", "failed"}
    /\ scans_storage' = DictSet(scans_storage, id,
                            [DictGet(scans_storage, id) EXCEPT !.status = "cancelled"])
    /\ UNCHANGED <<websocket_connections, task_pc, scan_result, ws_pc, ws_scan_id>>
    /\ UNCHANGED <<orchVars, cacheVars, scanVars, contVars, outVars, sigVars, limVars>>

\* The except clause of run_scan_task.
TaskFailed ==
    DictSet(scans_storage, ScanId,
            [DictGet(scans_storage, ScanId) EXCEPT !.status = "failed",
                                                   !.error = <<"error">>])

\* run_scan_task starts: status "scanning", progress 5, the first notify.
TaskBegin ==
    /\ task_pc = "queued"
    /\ scans_storage' = Assign("scanning", 5, DictGet(scans_storage, ScanId).current_analyzer)
    /\ task_pc' = "notify_scanning"
    /\ UNCHANGED <<websocket_connections, scan_result, ws_pc, ws_scan_id>>
    /\ UNCHANGED <<orchVars, cacheVars, scanVars, contVars, outVars, sigVars, limVars>>

\* The first notify returns; scanner.scan(path) returns its result, or raises.
TaskScan ==
    /\ task_pc = "notify_scanning"
    /\ \/ /\ scan_result' = "ok"
          /\ scans_storage' = Assign(DictGet(scans_storage, ScanId).status, 30,
                                     DictGet(scans_storage, ScanId).current_analyzer)
          /\ task_pc' = "notify_found"
       \/ /\ scans_storage' = TaskFailed
          /\ task_pc' = "notify_failed"
          /\ UNCHANGED scan_result
    /\ UNCHANGED <<websocket_connections, ws_pc, ws_scan_id>>
    /\ UNCHANGED <<orchVars, cacheVars, scanVars, contVars, outVars, sigVars, limVars>>

\* The second notify returns: status "analyzing", the loop is entered.
TaskAnalyze ==
    /\ task_pc = "notify_found"
    /\ scans_storage' = Assign("analyzing", DictGet(scans_storage, ScanId).progress,
                               DictGet(scans_storage, ScanId).current_analyzer)
    /\ i' = 1
    /\ results' = <<>>
    /\ task_pc' = "loop"
    /\ UNCHANGED <<analyzer_names, registry, analyze, parallel, pc, tasks, task_result,
                   finish_order, analyzer_results, report>>
    /\ UNCHANGED <<websocket_connections, scan_result, ws_pc, ws_scan_id>>
    /\ UNCHANGED <<cacheVars, scanVars, contVars, outVars, sigVars, limVars>>

\* 30 + int(70 * (i + 1) / len(analyzer_names)), i counting from 0.
Progress(k) == 30 + ((70 * k) \div Len(analyzer_names))

\* scan_task.results of a completed scan.
ApiResults(res) ==
    [scan |-> scan_result, analysis |-> res, summary |-> GenerateSummary(res)]

\* The head of "for i, analyzer_name in enumerate(analyzer_names)" up to the
\* notify of the loop body; after the last name, the summary and the
\* completion of the scan.
TaskLoop ==
    /\ task_pc = "loop"
    /\ IF i > Len(analyzer_names)
       THEN /\ scans_storage' =
                  DictSet(scans_storage, ScanId,
                          [DictGet(scans_storage, ScanId) EXCEPT
                               !.status = "completed", !.progress = 100,
                               !.results = <<ApiResults(results)>>])
            /\ task_pc' = "notify_completed"
            /\ UNCHANGED i
       ELSE LET name == analyzer_names[i] IN
            \/ /\ registry[name] = "raises"
               /\ scans_storage' =
                     DictSet(scans_storage, ScanId,
                             [DictGet(scans_storage, ScanId) EXCEPT
                                  !.status = "failed", !.error = <<"error">>,
                                  !.current_analyzer = name])
               /\ task_pc' = "notify_failed"
               /\ UNCHANGED i
            \/ /\ registry[name] = "none"
               /\ scans_storage' = Assign(DictGet(scans_storage, ScanId).status,
                                          Progress(i), name)
               /\ i' = i + 1
               /\ UNCHANGED task_pc
            \/ /\ Resolves(name)
               /\ scans_storage' = Assign(DictGet(scans_storage, ScanId).status,
                                          DictGet(scans_storage, ScanId).progress, name)
               /\ task_pc' = "notify_running"
               /\ UNCHANGED i
    /\ UNCHANGED <<analyzer_names, registry, analyze, parallel, pc, results, tasks,
                   task_result, finish_order, analyzer_results, report>>
    /\ UNCHANGED <<websocket_connections, scan_result, ws_pc, ws_scan_id>>
    /\ UNCHANGED <<cacheVars, scanVars, contVars, outVars, sigVars, limVars>>

\* results[analyzer_name] of the loop body's try/except.
ApiEntry(name) ==
    IF analyze[name] # "raises"
    THEN [data |-> Payload(name)]
    ELSE [error |-> ErrorText(name)]

\* The notify of the loop body returns; the analyzer runs; progress.
TaskRunAnalyzer ==
    /\ task_pc = "notify_running"
    /\ results' = DictSet(results, analyzer_names[i], ApiEntry(analyzer_names[i]))
    /\ scans_storage' = Assign(DictGet(scans_storage, ScanId).status, Progress(i),
                               DictGet(scans_storage, ScanId).current_analyzer)
    /\ i' = i + 1
    /\ task_pc' = "loop"
    /\ UNCHANGED <<analyzer_names, registry, analyze, parallel, pc, tasks, task_result,
                   finish_order, analyzer_results, report>>
    /\ UNCHANGED <<websocket_connections, scan_result, ws_pc, ws_scan_id>>
    /\ UNCHANGED <<cacheVars, scanVars, contVars, outVars, sigVars, limVars>>

\* The last notify returns and run_scan_task ends.
TaskEnd ==
    /\ task_pc \in {"notify_completed", "notify_failed"}
    /\ task_pc' = "done"
    /\ UNCHANGED <<scans_storage, websocket_connections, scan_result, ws_pc, ws_scan_id>>
    /\ UNCHANGED <<orchVars, cacheVars, scanVars, contVars, outVars, sigVars, limVars>>

\* websocket_endpoint up to the loop: accept, register the connection.
WsAccept(id) ==
    /\ ws_pc = "none"
    /\ LoopFree
    /\ websocket_connections' = websocket_connections \cup {id}
    /\ ws_scan_id' = id
    /\ ws_pc' = "loop"
    /\ UNCHANGED <<scans_storage, task_pc, scan_result>>
    /\ UNCHANGED <<orchVars, cacheVars, scanVars, contVars, outVars, sigVars, limVars>>

\* One pass of "while True" up to asyncio.sleep(1): the status is sent when
\* the scan is in the storage, and a completed or failed scan ends the loop;
\* the finally clause then removes the connection.
WsLoop ==
    /\ ws_pc = "loop"
    /\ LoopFree
    /\ IF /\ InStorage(ws_scan_id)
          /\ DictGet(scans_storage, ws_scan_id).status \in {"completed", "failed"}
       THEN /\ ws_pc' = "closed"
            /\ websocket_connections' = websocket_connections \ {ws_scan_id}
       ELSE /\ ws_pc' = "sleep"
            /\ UNCHANGED websocket_connections
    /\ UNCHANGED <<scans_storage, task_pc, scan_result, ws_scan_id>>
    /\ UNCHANGED <<orchVars, cacheVars, scanVars, contVars, outVars, sigVars, limVars>>

\* asyncio.sleep(1) is over.
WsWake ==
    /\ ws_pc = "sleep"
    /\ LoopFree
    /\ ws_pc' = "loop"
    /\ UNCHANGED <<scans_storage, websocket_connections, task_pc, scan_result, ws_scan_id>>
    /\ UNCHANGED <<orchVars, cacheVars, scanVars, contVars, outVars, sigVars, limVars>>

\* The client has gone: send_json raises, "except Exception" prints, and the
\* finally clause removes the connection. Nothing is sent, and so nothing
\* raises, for an id that is not in the storage.
WsDisconnect ==
    /\ ws_pc = "loop"
    /\ LoopFree
    /\ InStorage(ws_scan_id)
    /\ ws_pc' = "closed"
    /\ websocket_connections' = websocket_connections \ {ws_scan_id}
    /\ UNCHANGED <<scans_storage, task_pc, scan_result, ws_scan_id>>
    /\ UNCHANGED <<orchVars, cacheVars, scanVars, contVars, outVars, sigVars, limVars>>

\* The requests differ in their analyzers and in what the analyzers do.
ApiInit ==
    /\ OrchInit
    /\ analyzer_names \in CliNames
    /\ registry["todos"] = "instance"
    /\ analyze["todos"] = "returns"

TaskNext ==
    \/ TaskBegin
    \/ TaskScan
    \/ TaskAnalyze
    \/ TaskLoop
    \/ TaskRunAnalyzer
    \/ TaskEnd

ApiNext ==
    \/ StartScan
    \/ \E id \in WsIds : CancelScan(id)
    \/ TaskNext
    \/ \E id \in WsIds : WsAccept(id)
    \/ WsLoop
    \/ WsWake
    \/ WsDisconnect

SpecApi == ApiInit /\ [][ApiNext]_vars

\* The event loop runs every task that is ready: the background task goes on,
\* the update loop makes its passes and its sleeps end. Whether clients send
\* requests or disconnect is up to them.
SpecApiFair ==
    /\ SpecApi
    /\ WF_vars(TaskNext)
    /\ WF_vars(WsLoop)
    /\ WF_vars(WsWake)

(***************************************************************************)
(* RateLimiter: src/core/validators.py                                     *)
(***************************************************************************)
MaxClock == 4
MaxLimit == 2
MaxWindow == 3
MaxAllowed == 4

\* current_time - t < self.time_window
InWindow(t) == clock - t < time_window

\* A limit test that lets one call too many through.
WithinLimitInclusive(n) == n <= max_calls

\* len(self.calls) < self.max_calls
WithinLimit(n) == n < max_calls

\* RateLimiter(max_calls, time_window) has just been constructed.
LimInit ==
    /\ OrchIdle
    /\ CacheIdle
    /\ ScanIdle
    /\ ContIdle
    /\ OutIdle
    /\ SigIdle
    /\ ApiIdle
    /\ max_calls \in 0..MaxLimit
    /\ time_window \in 0..MaxWindow
    /\ calls = <<>>
    /\ clock = 0
    /\ returned = "none"
    /\ allowed = <<>>

\* time.time() moves on.
Tick ==
    /\ clock < MaxClock
    /\ clock' = clock + 1
    /\ UNCHANGED <<max_calls, time_window, calls, returned, allowed>>
    /\ UNCHANGED <<orchVars, cacheVars, scanVars, contVars, outVars, sigVars, apiVars>>

\* check_limit(): drop the calls that left the window, then admit the call
\* if fewer than max_calls remain.
CheckLimit ==
    /\ Len(allowed) < MaxAllowed
    /\ LET kept == SelectSeq(calls, InWindow) IN
       IF WithinLimit(Len(kept))
       THEN /\ calls' = Append(kept, clock)
            /\ returned' = "True"
            /\ allowed' = Append(allowed, clock)
       ELSE /\ calls' = kept
            /\ returned' = "False"
            /\ UNCHANGED allowed
    /\ UNCHANGED <<max_calls, time_window, clock>>
    /\ UNCHANGED <<orchVars, cacheVars, scanVars, contVars, outVars, sigVars, apiVars>>

LimNext ==
    \/ Tick
    \/ CheckLimit

SpecLimiter == LimInit /\ [][LimNext]_vars

(***************************************************************************)
(* Container: src/core/container.py                                        *)
(***************************************************************************)
MaxCalls == 2

\* pkgutil.iter_modules yields the modules of the package sorted by name.
ModuleOrder == <<"api", "env", "todos">>

\* modname: the module's name with the prefix pkg.__name__ + "."
ModName(n) ==
    CASE n = "api" -> "src.analyzers.api"
      [] n = "env" -> "src.analyzers.env"
      [] OTHER -> "src.analyzers.todos"

\* How a module of the package loads, and what its analyzer's constructor does.
ModuleKinds ==
    { [load |-> "absent", ctor |-> "ok"],
      [load |-> "import_error", ctor |-> "ok"],
      [load |-> "error", ctor |-> "ok"],
      [load |-> "ok", ctor |-> "ok"],
      [load |-> "ok", ctor |-> "raises"] }

\* str(e) of the exception a module raised while loading.
LoadErrorText(n) == <<modules[n].load, n>>

\* str(e) of the exception an analyzer's constructor raised.
CtorErrorText(n) == <<"constructor", n>>

\* The loop of _discover_analyzers over the modules (lines 45-72). Both except
\* clauses assign into self._failed_analyzers: without that attribute the
\* handler itself raises AttributeError, which the outer
\* `except ImportError` does not catch.
RECURSIVE DiscoverLoop(_, _, _)
DiscoverLoop(order, has, acc) ==
    IF order = <<>> THEN acc
    ELSE LET n == Head(order) IN
         IF modules[n].load = "absent" THEN DiscoverLoop(Tail(order), has, acc)
         ELSE IF modules[n].load = "ok"
         THEN DiscoverLoop(Tail(order), has,
                           [acc EXCEPT !.analyzers = DictSet(@, n, n)])
         ELSE IF "_failed_analyzers" \in has
         THEN DiscoverLoop(Tail(order), has,
                           [acc EXCEPT !.failed = DictSet(@, ModName(n), LoadErrorText(n))])
         ELSE [acc EXCEPT !.raised = TRUE]

\* _discover_analyzers() on a Container that has the attributes `has`: the
\* dict it returns, the failures map it leaves, and whether it raises. After
\* the loop, line 78 reads self._failed_analyzers.
DiscoverAnalyzers(has, failed) ==
    LET start == [analyzers |-> <<>>, failed |-> failed, raised |-> FALSE]
        looped == DiscoverLoop(ModuleOrder, has, start)
    IN  IF ~analyzers_path_exists THEN start
        ELSE IF looped.raised THEN looped
        ELSE IF "_failed_analyzers" \notin has THEN [looped EXCEPT !.raised = TRUE]
        ELSE looped

\* get_analyzer_names()
GetAnalyzerNames == DictKeys(analyzers)

\* get_failed_analyzers()
GetFailedAnalyzers == failed_analyzers

\* An analyzers package and no Container yet.
ContInit ==
    /\ OrchIdle
    /\ OutIdle
    /\ SigIdle
    /\ ApiIdle
    /\ LimIdle
    /\ CacheIdle
    /\ ScanIdle
    /\ analyzers_path_exists \in BOOLEAN
    /\ modules \in [Names -> ModuleKinds]
    /\ cont_pc = "new"
    /\ attrs = {}
    /\ analyzers = <<>>
    /\ failed_analyzers = <<>>
    /\ instances = <<>>
    /\ ctor_calls = [n \in Names |-> 0]
    /\ get_result = NoGet

\* Container(): __init__ runs _discover_analyzers twice (lines 20, 21) and
\* only then assigns self._failed_analyzers (line 22); self._instances is
\* assigned nowhere.
ContainerInit ==
    /\ cont_pc = "new"
    /\ LET first == DiscoverAnalyzers({}, <<>>)
           second == DiscoverAnalyzers({"_analyzers"}, first.failed)
       IN  IF first.raised \/ second.raised
           THEN /\ cont_pc' = "raised"
                /\ UNCHANGED <<attrs, analyzers, failed_analyzers>>
           ELSE /\ cont_pc' = "ready"
                /\ attrs' = {"_analyzers", "_failed_analyzers"}
                /\ analyzers' = second.analyzers
                /\ failed_analyzers' = <<>>
    /\ UNCHANGED <<analyzers_path_exists, modules, instances, ctor_calls, get_result>>
    /\ UNCHANGED <<orchVars, cacheVars, scanVars, outVars, sigVars, apiVars, limVars>>

\* get_analyzer(name): line 86 reads self._instances.
GetAnalyzer(name) ==
    /\ cont_pc = "ready"
    /\ ctor_calls[name] < MaxCalls
    /\ IF "_instances" \notin attrs
       THEN /\ get_result' = [called |-> TRUE, name |-> name, outcome |-> "raised"]
            /\ UNCHANGED <<instances, ctor_calls, failed_analyzers>>
       ELSE IF DictHas(instances, name)
       THEN /\ get_result' = [called |-> TRUE, name |-> name, outcome |-> "instance"]
            /\ UNCHANGED <<instances, ctor_calls, failed_analyzers>>
       ELSE IF DictHas(analyzers, name)
       THEN /\ ctor_calls' = [ctor_calls EXCEPT ![name] = @ + 1]
            /\ IF modules[DictGet(analyzers, name)].ctor = "ok"
               THEN /\ instances' = DictSet(instances, name, name)
                    /\ get_result' = [called |-> TRUE, name |-> name,
                                      outcome |-> "instance"]
                    /\ UNCHANGED failed_analyzers
               ELSE /\ failed_analyzers' =
                           DictSet(failed_analyzers, name, CtorErrorText(name))
                    /\ get_result' = [called |-> TRUE, name |-> name, outcome |-> "None"]
                    /\ UNCHANGED instances
       ELSE /\ get_result' = [called |-> TRUE, name |-> name, outcome |-> "None"]
            /\ UNCHANGED <<instances, ctor_calls, failed_analyzers>>
    /\ UNCHANGED <<analyzers_path_exists, modules, cont_pc, attrs, analyzers>>
    /\ UNCHANGED <<orchVars, cacheVars, scanVars, outVars, sigVars, apiVars, limVars>>

ContNext ==
    \/ ContainerInit
    \/ \E name \in Names : GetAnalyzer(name)

SpecCont == ContInit /\ [][ContNext]_vars

(***************************************************************************)
(* LLMContextBuilder.build: src/output/context.py                          *)
(***************************************************************************)
MaxPartLen == 3
MaxTokens == 2

\* The sections build() may append, in priority order: overview, critical
\* issues, architecture, tech stack, technical debt.
Sections == 5

\* The texts a _format_* call may give; the empty text also stands for a
\* section that is not appended.
PartTexts == {[k \in 1..len |-> "x"] : len \in 0..MaxPartLen}

\* filter(None, context_parts)
RECURSIVE FilterNone(_)
FilterNone(parts) ==
    IF parts = <<>> THEN <<>>
    ELSE IF Head(parts) = <<>> THEN FilterNone(Tail(parts))
    ELSE <<Head(parts)>> \o FilterNone(Tail(parts))

\* "\n\n".join(parts)
RECURSIVE Join(_)
Join(parts) ==
    IF parts = <<>> THEN <<>>
    ELSE IF Len(parts) = 1 THEN Head(parts)
    ELSE Head(parts) \o <<"\n", "\n">> \o Join(Tail(parts))

\* "\n\n[Context truncated due to length]"
TruncationNotice == <<"\n", "\n", "[", "C", "o", "n", "t", "e", "x", "t", " ", "t", "r", "u", "n", "c", "a", "t", "e", "d", " ", "d", "u", "e", " ", "t", "o", " ", "l", "e", "n", "g", "t", "h", "]">>

\* Lines 66-69: context[:max_chars] + notice when the context is too long.
Truncate(text, max_chars) ==
    IF Len(text) > max_chars
    THEN SubSeq(text, 1, max_chars) \o TruncationNotice
    ELSE text

\* build(results, max_tokens)
Build(parts, tokens) == Truncate(Join(FilterNone(parts)), tokens * 4)

BuildInit ==
    /\ OrchIdle
    /\ OutIdle
    /\ SigIdle
    /\ ApiIdle
    /\ LimIdle
    /\ CacheIdle
    /\ ScanIdle
    /\ ContIdle

\* The caller picks the results and the token budget.
BuildArguments ==
    /\ build_pc = "new"
    /\ context_parts = <<>>
    /\ context_parts' \in [1..Sections -> PartTexts]
    /\ max_tokens' \in 0..MaxTokens
    /\ UNCHANGED <<build_pc, context>>
    /\ UNCHANGED <<orchVars, cacheVars, scanVars, contVars, sigVars, apiVars, limVars>>

BuildCall ==
    /\ build_pc = "new"
    /\ context_parts # <<>>
    /\ context' = Build(context_parts, max_tokens)
    /\ build_pc' = "returned"
    /\ UNCHANGED <<context_parts, max_tokens>>
    /\ UNCHANGED <<orchVars, cacheVars, scanVars, contVars, sigVars, apiVars, limVars>>

BuildNext == BuildArguments \/ BuildCall

SpecBuild == BuildInit /\ [][BuildNext]_vars

(***************************************************************************)
(* Claims about the persistent cache                                       *)
(***************************************************************************)
\* C4: when a cache file exists as save() is entered, then in every state
\* inside save(), a kill at any point included, the cache file exists and
\* holds a whole document: the previous one or the new one.
C4_AtomicFlush ==
    (save_pc # "idle" /\ before_save.kind = "doc") =>
        /\ cache_file.kind = "doc"
        /\ \/ cache_file.doc = before_save.doc
           \/ cache_file.doc = JsonDump(cache_data)

\* C5: when a step of save() fails, then as save() hands control back the
\* temporary file is gone, the cache file is what it was when save() was
\* entered, and the exception is raised to the caller.
C5_FlushFailure ==
    [][SaveExcept =>
         /\ temp_file'.kind = "missing"
         /\ cache_file' = before_save
         /\ save_status' = "raised"]_vars

\* C6: once update_file has recorded paths and save() has completed, a cache
\* constructed anew over the same directory reports each recorded path as
\* unchanged while the file's existence, mtime and size are what they were
\* when it was recorded, and as changed otherwise.
C6_RoundTrip ==
    (recorded.fresh /\ flushed.valid /\ save_pc = "idle") =>
        \A f \in flushed.paths :
            IsFileChanged(f) = (Stat(fs[f]) # flushed.stats[f])

C6_Witness ==
    /\ recorded.fresh
    /\ flushed.valid
    /\ save_pc = "idle"
    /\ flushed.paths = Tracked
    /\ \E f, g \in flushed.paths :
          /\ Stat(fs[f]) = flushed.stats[f] /\ ~IsFileChanged(f)
          /\ fs[g].exists /\ Stat(fs[g]) # flushed.stats[g] /\ IsFileChanged(g)

\* What C7 says is_file_changed returns.
ExpectedChanged(f) ==
    LET key == AbsPath(project_path, f) IN
    \/ ~DictHas(cache_data, key)
    \/ ~fs[f].exists
    \/ DictGet(cache_data, key).mtime # fs[f].mtime
    \/ DictGet(cache_data, key).size # fs[f].size

\* C7: is_file_changed(path) returns True exactly when the path has no entry,
\* the file cannot be stat'ed, or its mtime or size differs from the entry,
\* whatever the stored hash and the file's content are; the call leaves the
\* map as it was.
C7_IsFileChanged ==
    [][\A f \in Tracked :
         IsFileChangedCall(f) =>
             /\ last_check'.result = ExpectedChanged(f)
             /\ cache_data' = cache_data]_vars

C7_Witness ==
    /\ last_check.called
    /\ ~last_check.result
    /\ fs[last_check.path].exists
    /\ DictHas(cache_data, AbsPath(project_path, last_check.path))
    /\ DictGet(cache_data, AbsPath(project_path, last_check.path)).hash
           # CalculateHash(last_check.path)
    /\ ~IsFileChanged(last_check.path)

(***************************************************************************)
(* Claims about the orchestrator                                           *)
(***************************************************************************)
Distinct(s) == \A a, b \in 1..Len(s) : a # b => s[a] # s[b]

AllResolve == \A k \in 1..Len(analyzer_names) : Resolves(analyzer_names[k])

Raisers == {k \in 1..Len(analyzer_names) : analyze[analyzer_names[k]] = "raises"}

OneRaiserAmongResolved ==
    /\ Distinct(analyzer_names)
    /\ AllResolve
    /\ Cardinality(Raisers) = 1

\* C1: N distinct requested analyzers that all resolve, exactly one of which
\* raises from analyze(): in either mode the invocation does not raise, the
\* analyzers map has exactly N entries, the raising analyzer's entry has an
\* error field holding the exception text and the others hold their payloads.
C1_FailureIsolation ==
    \A m \in Modes :
        (OneRaiserAmongResolved /\ report[m] # NotRun) =>
            /\ report[m].status = "ok"
            /\ Len(report[m].analyzers) = Len(analyzer_names)
            /\ \A k \in 1..Len(analyzer_names) :
                  LET n == analyzer_names[k] IN
                  /\ DictHas(report[m].analyzers, n)
                  /\ LET e == DictGet(report[m].analyzers, n) IN
                     IF analyze[n] = "raises"
                     THEN "error" \in DOMAIN e /\ e.error = ErrorText(n)
                     ELSE e = Payload(n)

C1_Witness ==
    /\ OneRaiserAmongResolved
    /\ Len(analyzer_names) = 3
    /\ \A m \in Modes : report[m].status = "ok"

KeySet(d) == {d[j].key : j \in 1..Len(d)}

\* C2: on the same requested names, registry and analyzers, the sequential and
\* the concurrent invocation end the same way, and their analyzers maps have
\* the same keys and the same payload or error under every key.
C2_ModeEquivalence ==
    (report["sequential"] # NotRun /\ report["parallel"] # NotRun) =>
        /\ report["sequential"].status = report["parallel"].status
        /\ KeySet(report["sequential"].analyzers) = KeySet(report["parallel"].analyzers)
        /\ \A n \in KeySet(report["sequential"].analyzers) :
              DictGet(report["sequential"].analyzers, n)
                  = DictGet(report["parallel"].analyzers, n)

C2_Witness ==
    /\ report["sequential"].status = "ok"
    /\ report["parallel"].status = "ok"
    /\ \E a, b \in KeySet(report["parallel"].analyzers) :
          analyze[a] = "raises" /\ analyze[b] = "returns"
    /\ \E k \in 1..Len(analyzer_names) : registry[analyzer_names[k]] = "none"

\* The requested names that resolved, in request order, each once.
RECURSIVE FirstOccurrences(_)
FirstOccurrences(s) ==
    IF s = <<>> THEN <<>>
    ELSE LET front == FirstOccurrences(SubSeq(s, 1, Len(s) - 1))
             last == s[Len(s)]
         IN IF last \in Range(front) THEN front ELSE Append(front, last)

RequestedOrder == FirstOccurrences(SelectSeq(analyzer_names, Resolves))

\* C3: in concurrent mode, whatever the order in which the coroutines finish,
\* the keys of the analyzers map are in the order the names were requested
\* (restricted to the names that resolved).
C3_RequestOrder ==
    report["parallel"].status = "ok" =>
        DictKeys(report["parallel"].analyzers) = RequestedOrder

C3_Witness ==
    /\ report["parallel"].status = "ok"
    /\ Len(report["parallel"].analyzers) = 3
    /\ finish_order = <<3, 1, 2>>

(***************************************************************************)
(* Claims about the file walker                                            *)
(***************************************************************************)
OkResults == {k \in 1..Len(scan_results) : scan_results[k].status = "ok"}

PathSeq(r) == [k \in 1..Len(r.files) |-> r.files[k].path]

PathSet(r) == Range(PathSeq(r))

\* A pattern matches a path: by glob, or by the substring fallback.
Matches(rel, pat) == ~MatchRaises(pat) /\ PatternExcludes(project_path, rel, pat)

MatchedBySome(rel) ==
    \E k \in 1..Len(exclude_patterns) : Matches(rel, exclude_patterns[k])

\* The orderings of a pattern list.
Orderings(s) ==
    { [k \in 1..Len(s) |-> s[q[k]]] :
        q \in {f \in [1..Len(s) -> 1..Len(s)] : \A a, b \in 1..Len(s) : f[a] = f[b] => a = b} }

\* The project files an inventory holds under a pattern list: not excluded,
\* not above the maximum size.
SurvivingUnder(patterns) ==
    { AbsPath(project_path, rel) : rel \in
        {f \in Files : /\ ~ShouldExclude(project_path, f, patterns)
                       /\ fs[f].size <= MaxFileSize(profile)} }

ProjectPaths == {AbsPath(project_path, rel) : rel \in Files}

\* C8: a file matched by at least one configured pattern (glob or substring)
\* is in no inventory scan() returns, and the project files of an inventory
\* are those that survive under every ordering of the pattern list.
C8_ExclusionDeterminism ==
    \A k \in OkResults :
        /\ \A rel \in Files \cup {CacheRel} :
               MatchedBySome(rel) => AbsPath(project_path, rel) \notin PathSet(scan_results[k])
        /\ \A q \in Orderings(exclude_patterns) :
               PathSet(scan_results[k]) \cap ProjectPaths = SurvivingUnder(q)

\* C9: the scans of one untouched project, whatever the cache held before
\* each of them, return the same sequence of files.
C9_CacheIndependence ==
    \A j, k \in OkResults : PathSeq(scan_results[j]) = PathSeq(scan_results[k])

\* The file the loop is looking at is a regular file of the given size class.
VisitingFile == scan_pc = "walk" /\ listing # <<>> /\ IsFile(Head(listing))

\* C10: a file larger than the profile's max_file_size is in no inventory, and
\* the iteration that meets it adds no FileInfo and leaves every cache entry
\* as it was; a file of exactly the maximum that is not excluded is added, and
\* is in the inventory.
C10_SizeFiltering ==
    /\ [](\A k \in OkResults : \A rel \in Files :
            LET inside == AbsPath(project_path, rel) \in PathSet(scan_results[k]) IN
            /\ fs[rel].size > MaxFileSize(profile) => ~inside
            /\ (fs[rel].size = MaxFileSize(profile)
                /\ ~ShouldExclude(project_path, rel, exclude_patterns)) => inside)
    /\ [][(ScanVisit /\ VisitingFile
            /\ Live(Head(listing)).size > MaxFileSize(profile))
          => (files' = files /\ cache_data' = cache_data)]_vars
    /\ [][(ScanVisit /\ VisitingFile
            /\ Live(Head(listing)).size = MaxFileSize(profile)
            /\ ~ShouldExclude(project_path, Head(listing), exclude_patterns))
          => files' = Append(files, FileInfo(Head(listing)))]_vars

\* A returned inventory that keeps a file of exactly the maximum and lacks a
\* file one byte larger that no pattern excludes, the cache holding no entry
\* for the larger file.
C10_Witness ==
    \E k \in OkResults : \E kept, skipped \in Files :
        /\ fs[kept].size = MaxFileSize(profile)
        /\ AbsPath(project_path, kept) \in PathSet(scan_results[k])
        /\ fs[skipped].size = MaxFileSize(profile) + 1
        /\ ~ShouldExclude(project_path, skipped, exclude_patterns)
        /\ AbsPath(project_path, skipped) \notin PathSet(scan_results[k])
        /\ ~DictHas(cache_data, AbsPath(project_path, skipped))

\* The project files that are still there, are not excluded and are within
\* the maximum size.
Surviving ==
    { f \in Files : /\ fs[f].exists
                    /\ ~ShouldExclude(project_path, f, exclude_patterns)
                    /\ fs[f].size <= MaxFileSize(profile) }

\* C11: a file that vanishes while scan() processes it, between any two of
\* the walker's checks, is skipped alone: no exception raised in the loop ever
\* leaves scan(), and every returned inventory holds every other surviving
\* file.
C11_PerFileFailure ==
    /\ \A k \in 1..Len(scan_results) : scan_results[k].status # "aborted"
    /\ \A k \in OkResults : \A f \in Surviving :
           AbsPath(project_path, f) \in PathSet(scan_results[k])

\* The cache file a scan found holds no path-to-entry mapping.
UnusableStore == cache_file.kind \in {"missing", "corrupt", "null", "list", "undecodable"}

\* C12: over a cache file that is missing, unparsable, undecodable or not a
\* mapping, no exception of the cache leaves scan(); constructing the cache
\* gives an empty dict, and the walk records an entry for the file it keeps.
C12_FailOpenLoad ==
    /\ [](\A k \in 1..Len(scan_results) : scan_results[k].status # "cache_error")
    /\ [][(ScanStart /\ UnusableStore)
          => (scan_pc' = "walk" /\ cache_type' = "dict" /\ cache_data' = <<>>)]_vars
    /\ [][(WalkCache /\ UnusableStore /\ Live(Head(listing)).exists)
          => DictHas(cache_data', AbsPath(project_path, Head(listing)))]_vars

(***************************************************************************)
(* Claims about the analyzer registry                                      *)
(***************************************************************************)
Loadable(n) == analyzers_path_exists /\ modules[n].load = "ok"

FailsToLoad(n) == analyzers_path_exists /\ modules[n].load \in {"import_error", "error"}

\* C13: when a module of the package fails to load, Container() does not
\* raise, get_analyzer_names() lists every module that loads, and
\* get_failed_analyzers() holds the failed module with its error text.
C13_DiscoveryIsolation ==
    (cont_pc # "new" /\ \E n \in Names : FailsToLoad(n)) =>
        /\ cont_pc = "ready"
        /\ Range(GetAnalyzerNames) = {n \in Names : Loadable(n)}
        /\ \A n \in Names : FailsToLoad(n) =>
               /\ DictHas(GetFailedAnalyzers, ModName(n))
               /\ DictGet(GetFailedAnalyzers, ModName(n)) = LoadErrorText(n)

\* C14: constructing the registry over loadable analyzer modules registers
\* them without constructing an instance; get_analyzer of a registered name
\* returns an instance, and the constructor has then run exactly once however
\* often get_analyzer was called.
C14_LazyMemoization ==
    /\ [](\A n \in Names : (cont_pc # "new" /\ Loadable(n)) =>
            /\ cont_pc = "ready"
            /\ DictHas(analyzers, n)
            /\ modules[n].ctor = "ok" =>
                   (ctor_calls[n] = IF DictHas(instances, n) THEN 1 ELSE 0))
    /\ [][ContainerInit => ctor_calls' = [n \in Names |-> 0]]_vars
    /\ [][\A n \in Names :
            (GetAnalyzer(n) /\ DictHas(analyzers, n) /\ modules[n].ctor = "ok")
            => /\ get_result'.outcome = "instance"
               /\ ctor_calls'[n] = 1
               /\ DictHas(instances', n)]_vars

\* C15: over a registry that holds an analyzer whose constructor raises,
\* get_analyzer(name) returns None, records the error text under the name in
\* the failures map and memoizes nothing.
C15_ConstructorFailure ==
    /\ [](\A n \in Names :
            (cont_pc # "new" /\ Loadable(n) /\ modules[n].ctor = "raises") =>
            (cont_pc = "ready" /\ DictHas(analyzers, n)))
    /\ [][\A n \in Names :
            (GetAnalyzer(n) /\ DictHas(analyzers, n) /\ modules[n].ctor = "raises")
            => /\ get_result'.outcome = "None"
               /\ DictHas(failed_analyzers', n)
               /\ DictGet(failed_analyzers', n) = CtorErrorText(n)
               /\ ~DictHas(instances', n)]_vars

\* C16: whatever names are requested, the invocation does not raise, and the
\* keys of its analyzers map are the requested names the registry resolved to
\* an instance; under a name whose analyze() raised lies an error record. A
\* name the registry does not resolve is skipped.
C16_ReportKeys ==
    \A m \in Modes : report[m] # NotRun =>
        /\ report[m].status = "ok"
        /\ KeySet(report[m].analyzers) = {n \in Range(analyzer_names) : Resolves(n)}
        /\ \A n \in KeySet(report[m].analyzers) :
               analyze[n] = "raises" => DictGet(report[m].analyzers, n) = ErrorData(n)

(***************************************************************************)
(* Claims about the results of a scan                                      *)
(***************************************************************************)
LastResult(rs) == rs[Len(rs)]

\* C17: when save() raises at the end of scan(), the caller gets the error
\* and still gets the inventory the traversal computed, the same one a
\* successful flush would have returned.
C17_FlushFailureKeepsInventory ==
    [][ScanRaise =>
        /\ LastResult(scan_results').status = "raised"
        /\ LastResult(scan_results').files = files
        /\ LastResult(scan_results').total_files = Len(files)]_vars

\* The bytes of the first k entries of a file list.
RECURSIVE BytesUpTo(_, _)
BytesUpTo(fl, k) == IF k = 0 THEN 0 ELSE BytesUpTo(fl, k - 1) + fl[k].size

\* C18: every inventory scan() returns has total_files equal to the number
\* of its entries, total_size equal to the sum of their sizes, and the
\* scanned path as root.
C18_InventoryTotals ==
    \A k \in OkResults :
        /\ scan_results[k].total_files = Len(scan_results[k].files)
        /\ scan_results[k].total_size
               = BytesUpTo(scan_results[k].files, Len(scan_results[k].files))
        /\ scan_results[k].root = project_path

\* A returned inventory of at least two entries of different sizes.
C18_Witness ==
    \E k \in OkResults : \E a, b \in 1..Len(scan_results[k].files) :
        scan_results[k].files[a].size # scan_results[k].files[b].size

(***************************************************************************)
(* Claims about the report and its consumers                               *)
(***************************************************************************)
\* C19: for every results dictionary and every max_tokens >= 0, the string
\* build(results, max_tokens) returns is at most 4 * max_tokens characters
\* long.
C19_TruncationBound ==
    build_pc = "returned" => Len(context) <= 4 * max_tokens

\* The requested analyzers that raised in analyze().
RaisedIn(res) == {n \in KeySet(res) : analyze[n] = "raises"}

Scanning == scan_pc # "idle"

AnalyzersBegun == pc # "idle" \/ \E m \in Modes : report[m] # NotRun

\* C21: scan() loads the cache from disk once, when it starts and before the
\* first entry is visited, and never again while it runs; during the
\* traversal neither the cache file nor a temporary file is written; the
\* cache file gets its new content in one step, after the last entry and
\* before scan() returns, and what is on disk when scan() returns is the
\* in-memory cache; once the analyzers have begun neither the in-memory cache
\* nor the files of the cache directory change.
C21_LoadOnceFlushOnce ==
    [][/\ (~Scanning /\ Scanning')
           => (recorded'.fresh /\ cache_data' = LoadCache(cache_file)
               /\ files' = <<>> /\ listing' = Rglob)
       /\ Scanning
           => (recorded'.fresh => (recorded.fresh /\ cache_data' = cache_data))
       /\ Scanning => cache_type' = cache_type
       /\ scan_pc = "walk" /\ scan_pc' = "walk"
           => (cache_file' = cache_file /\ temp_file' = temp_file)
       /\ cache_file' # cache_file => (scan_pc = "save" /\ listing = <<>>)
       /\ cache_file' # cache_file /\ cache_file' # NoFile
           => (cache_file'.doc = JsonDump(cache_data) /\ save_pc' = "idle"
               /\ save_status' = "returned")
       /\ scan_pc = "save" /\ save_pc = "idle"
           => (cache_file' = cache_file /\ temp_file' = temp_file)
       /\ (scan_pc = "save" /\ scan_pc' = "idle" /\ save_status = "returned")
           => (cache_file.doc = JsonDump(cache_data) /\ temp_file = NoFile)
       /\ AnalyzersBegun
           => (cache_data' = cache_data /\ cache_file' = cache_file
               /\ temp_file' = temp_file /\ cache_type' = cache_type)
      ]_vars

\* The analyzers have run over the result of a scan that wrote cache entries.
C21_Witness ==
    /\ \E m \in Modes : report[m].status = "ok" /\ report[m].analyzers # <<>>
    /\ scan_results # <<>>
    /\ scan_results[1].status = "ok"
    /\ scan_results[1].files # <<>>
    /\ cache_file.doc # <<>>
    /\ cache_file.doc = JsonDump(cache_data)

(***************************************************************************)
(* C22: the root directory does not matter                                 *)
(***************************************************************************)
\* str(f.path.relative_to(r.root)) for the files of a ScanResult.
RelPathSet(r) ==
    { SubSeq(r.files[k].path, Len(r.root) + 2, Len(r.files[k].path)) :
        k \in 1..Len(r.files) }

\* C22: two trees of the same relative layout under different roots, scanned
\* with the same pattern list, give inventories with the same set of relative
\* paths.
C22_RootIndependence ==
    \A j, k \in OkResults :
        scan_results[j].root # scan_results[k].root
            => RelPathSet(scan_results[j]) = RelPathSet(scan_results[k])

(***************************************************************************)
(* C23: update_file only for the files is_file_changed reports             *)
(***************************************************************************)
\* The entry stored under the path has the live file's mtime and size.
StoredMatchesLive(rel) ==
    /\ DictHas(cache_data, AbsPath(project_path, rel))
    /\ DictGet(cache_data, AbsPath(project_path, rel)).mtime = Live(rel).mtime
    /\ DictGet(cache_data, AbsPath(project_path, rel)).size = Live(rel).size

\* C23: in an iteration of the loop of scan() that keeps a file, update_file
\* runs exactly when the file has no stored entry or its stored mtime or size
\* differs from the live file: then the entry is rewritten from the live file
\* with a hash of its content, and no other entry changes; when the stored
\* mtime and size match, nothing is recorded and the cache is left as it was.
\* An iteration that keeps no file leaves the cache as it was.
C23_UpdateIffChanged ==
    [][ScanVisit =>
        LET rel == Head(listing)
            key == AbsPath(project_path, rel)
            kept == files' # files
        IN  /\ kept /\ StoredMatchesLive(rel)
                => (cache_data' = cache_data /\ recorded' = recorded)
            /\ kept /\ ~StoredMatchesLive(rel)
                => /\ DictHas(cache_data', key)
                   /\ DictGet(cache_data', key) =
                          [mtime |-> Live(rel).mtime, size |-> Live(rel).size,
                           hash |-> Md5(Live(rel).content)]
                   /\ rel \in recorded'.paths \/ rel = CacheRel
                   /\ \A k \in Range(DictKeys(cache_data)) \ {key} :
                          /\ DictHas(cache_data', k)
                          /\ DictGet(cache_data', k) = DictGet(cache_data, k)
            /\ ~kept => (cache_data' = cache_data /\ recorded' = recorded)
       ]_vars

\* A later scan has kept a file whose stored entry matched, and has not
\* called update_file so far.
C23_Witness ==
    /\ scan_pc = "walk"
    /\ scan_results # <<>>
    /\ files # <<>>
    /\ recorded.fresh
    /\ \A k \in 1..Len(files) : DictHas(cache_data, files[k].path)

(***************************************************************************)
(* C24: an interrupted run gives no report                                 *)
(***************************************************************************)
\* C24: once the run has been interrupted while analyzers were in flight, in
\* either mode, no report is produced: no invocation hands results, complete
\* or partial, to a formatter afterwards.
C24_NoReportAfterInterrupt ==
    [][interrupt = "delivered" => report' = report]_vars

(***************************************************************************)
(* C25: scanning twice gives the same set of files                         *)
(***************************************************************************)
\* C25: the scans of one project that nobody else touches return the same
\* set of files, and no inventory holds the cache file the scanner writes
\* under the root.
C25_ScanIdempotence ==
    \A j, k \in OkResults :
        /\ PathSet(scan_results[j]) = PathSet(scan_results[k])
        /\ AbsPath(project_path, CacheRel) \notin PathSet(scan_results[k])

(***************************************************************************)
(* C26: repeated scans reach a fixpoint                                    *)
(***************************************************************************)
\* C26: when a project is scanned again and again with nobody else touching
\* it, the scans after the second find every kept file unchanged: their loop
\* calls update_file for no file and leaves every cache entry as it is, so
\* that save() writes the entries the scan before wrote.
C26_Fixpoint ==
    [][(ScanVisit /\ Len(scan_results) >= 2)
          => (cache_data' = cache_data /\ recorded' = recorded)]_vars

(***************************************************************************)
(* C27: the recorded size is the size that was checked                     *)
(***************************************************************************)
\* C27: every FileInfo scan() appends, and so every FileInfo of an inventory
\* it returns, has a size of at most the profile's max_file_size, also when
\* another process changes the file while the scan runs.
C27_SizeWithinLimit ==
    /\ \A j \in 1..Len(files) : files[j].size <= MaxFileSize(profile)
    /\ \A k \in OkResults : \A j \in 1..Len(scan_results[k].files) :
           scan_results[k].files[j].size <= MaxFileSize(profile)

(***************************************************************************)
(* C28: a cancelled scan stays cancelled                                   *)
(***************************************************************************)
\* C28: once the status of a scan is "cancelled" it stays "cancelled", and no
\* results are attached to the scan afterwards.
C28_CancelIsFinal ==
    [][\A id \in WsIds :
          (InStorage(id) /\ DictGet(scans_storage, id).status = "cancelled")
              => /\ DictGet(scans_storage', id).status = "cancelled"
                 /\ DictGet(scans_storage', id).results = <<>>]_vars

(***************************************************************************)
(* C29: every WebSocket session ends                                       *)
(***************************************************************************)
\* C29: a WebSocket session, whatever scan_id it was opened with, leaves its
\* update loop and removes its entry from websocket_connections, also when
\* the client never disconnects.
C29_SessionTerminates ==
    (ws_pc = "loop") ~> (ws_pc = "closed" /\ ws_scan_id \notin websocket_connections)

(***************************************************************************)
(* C30: the rate limiter's bound                                           *)
(***************************************************************************)
\* The number of calls admitted at a time t with lo <= t < hi.
AdmittedIn(lo, hi) ==
    Cardinality({k \in 1..Len(allowed) : lo <= allowed[k] /\ allowed[k] < hi})

\* The number of calls admitted in the last time_window: clock - t < time_window.
AdmittedLately ==
    Cardinality({k \in 1..Len(allowed) : allowed[k] > clock - time_window})

=============================================================================
